---- MODULE Spec2Model ----
(***************************************************************************)
(* agate: phase derivation (internal/workflow/state.go), exit-code policy, *)
(* the sprint checkbox document (internal/workflow/sprint.go) and the loop *)
(* of agate auto (cmd/auto.go).                                            *)
(*                                                                         *)
(* Text is a sequence of one-character strings.  The two marker emojis of  *)
(* sprint.go are each one element: FailGlyph and ReplanGlyph.              *)
(***************************************************************************)
EXTENDS Integers, Sequences, FiniteSets, TLC

VARIABLES goal, interview, overview, decisions, sprintsDir, sprints, status, current

VARIABLES probe

VARIABLES disk, handle, lastOp, lastErr, adds, onlyAdds, nOps

fsVars == <<goal, interview, overview, decisions, sprintsDir, sprints, status, current>>

exitVars == <<probe>>

\* the value returned by the latest call, and the two sprint files of a merge
VARIABLES out, oldDisk, newDisk, execResult

\* AutoRunner.Run: its place, its locals, the Exec calls made so far, what is
\* left on stdin and what the reader goroutine has put on inputCh
VARIABLES pc, step, consecutiveErrors, ret, calls, codes, stdin, inputCh

sprintVars == <<disk, handle, lastOp, lastErr, adds, onlyAdds, nOps>>

callVars == <<out, oldDisk, newDisk, execResult>>

autoVars == <<pc, step, consecutiveErrors, ret, calls, codes, stdin, inputCh>>

vars == <<fsVars, exitVars, sprintVars, callVars, autoVars>>

(***************************************************************************)
(* Text helpers (Go strings / regexp primitives)                           *)
(***************************************************************************)

FailGlyph == "F*"

ReplanGlyph == "R*"

NL == "\n"

IsGlyph(c) == c = FailGlyph \/ c = ReplanGlyph

\* \s of Go regexp / unicode.IsSpace over the model's alphabet
IsSpace(c) == c = " " \/ c = NL

IsDigit(c) == c \in {"0", "1", "2", "3", "4", "5", "6", "7", "8", "9"}

DigitVal(c) ==
    CASE c = "0" -> 0 [] c = "1" -> 1 [] c = "2" -> 2 [] c = "3" -> 3
      [] c = "4" -> 4 [] c = "5" -> 5 [] c = "6" -> 6 [] c = "7" -> 7
      [] c = "8" -> 8 [] c = "9" -> 9

\* byte value of a character that can occur in a file name
CharCode(c) ==
    CASE c = "-" -> 45 [] c = "." -> 46 [] c = "/" -> 47
      [] IsDigit(c) -> 48 + DigitVal(c)
      [] c = "a" -> 97 [] c = "b" -> 98 [] c = "c" -> 99 [] c = "d" -> 100
      [] c = "i" -> 105 [] c = "m" -> 109 [] c = "n" -> 110 [] c = "p" -> 112
      [] c = "r" -> 114 [] c = "s" -> 115 [] c = "t" -> 116 [] c = "x" -> 120
      [] OTHER -> 0

Drop(s, n) == IF n >= Len(s) THEN <<>> ELSE SubSeq(s, n + 1, Len(s))

Take(s, n) == IF n <= 0 THEN <<>> ELSE SubSeq(s, 1, IF n > Len(s) THEN Len(s) ELSE n)

HasPrefix(s, p) == Len(s) >= Len(p) /\ SubSeq(s, 1, Len(p)) = p

HasSuffix(s, p) == Len(s) >= Len(p) /\ SubSeq(s, Len(s) - Len(p) + 1, Len(s)) = p

\* strings.Index: 1-based position of the first occurrence of p in s, 0 if none
RECURSIVE IndexFrom(_, _, _)
IndexFrom(s, p, i) ==
    IF i + Len(p) - 1 > Len(s) THEN 0
    ELSE IF SubSeq(s, i, i + Len(p) - 1) = p THEN i
    ELSE IndexFrom(s, p, i + 1)

Index(s, p) == IndexFrom(s, p, 1)

Contains(s, p) == Index(s, p) > 0

\* strings.Replace(s, old, new, 1)
ReplaceFirst(s, old, new) ==
    LET i == Index(s, old)
    IN  IF i = 0 THEN s
        ELSE Take(s, i - 1) \o new \o Drop(s, i + Len(old) - 1)

\* strings.ReplaceAll(s, <<c>>, "") for a one-element pattern
RECURSIVE RemoveAll(_, _)
RemoveAll(s, c) ==
    IF s = <<>> THEN <<>>
    ELSE IF Head(s) = c THEN RemoveAll(Tail(s), c)
    ELSE <<Head(s)>> \o RemoveAll(Tail(s), c)

\* strings.Count(s, <<c>>)
RECURSIVE Count(_, _)
Count(s, c) ==
    IF s = <<>> THEN 0
    ELSE (IF Head(s) = c THEN 1 ELSE 0) + Count(Tail(s), c)

RECURSIVE TrimLeft(_)
TrimLeft(s) == IF s /= <<>> /\ IsSpace(Head(s)) THEN TrimLeft(Tail(s)) ELSE s

RECURSIVE TrimRight(_)
TrimRight(s) ==
    IF s /= <<>> /\ IsSpace(s[Len(s)]) THEN TrimRight(SubSeq(s, 1, Len(s) - 1)) ELSE s

TrimSpace(s) == TrimRight(TrimLeft(s))

\* strings.Split(s, "\n")
RECURSIVE Split(_)
Split(s) ==
    LET i == Index(s, <<NL>>)
    IN  IF i = 0 THEN <<s>>
        ELSE <<Take(s, i - 1)>> \o Split(Drop(s, i))

\* strings.Join(lines, "\n")
RECURSIVE Join(_)
Join(lines) ==
    IF lines = <<>> THEN <<>>
    ELSE IF Len(lines) = 1 THEN lines[1]
    ELSE lines[1] \o <<NL>> \o Join(Tail(lines))

\* length of the longest prefix of s made of marker glyphs: (?:F|R)*
RECURSIVE GlyphRunLen(_)
GlyphRunLen(s) ==
    IF s /= <<>> /\ IsGlyph(Head(s)) THEN 1 + GlyphRunLen(Tail(s)) ELSE 0

\* lexicographic byte order of sort.Strings
RECURSIVE StrLess(_, _)
StrLess(a, b) ==
    IF b = <<>> THEN FALSE
    ELSE IF a = <<>> THEN TRUE
    ELSE IF CharCode(Head(a)) < CharCode(Head(b)) THEN TRUE
    ELSE IF CharCode(Head(a)) > CharCode(Head(b)) THEN FALSE
    ELSE StrLess(Tail(a), Tail(b))

\* sort.Strings over a set of distinct names
RECURSIVE SortStrings(_)
SortStrings(S) ==
    IF S = {} THEN <<>>
    ELSE LET m == CHOOSE x \in S : \A y \in S \ {x} : StrLess(x, y)
         IN  <<m>> \o SortStrings(S \ {m})

(***************************************************************************)
(* Sprint document: sprint.go                                              *)
(***************************************************************************)

\* "- [" c "] " with c one of " ", "x", "X", after an indent of n spaces
BoxPrefixAt(line, n) ==
    /\ Len(line) >= n + 6
    /\ \A k \in 1..n : line[k] = " "
    /\ line[n + 1] = "-"
    /\ line[n + 2] = " "
    /\ line[n + 3] = "["
    /\ line[n + 4] \in {" ", "x", "X"}
    /\ line[n + 5] = "]"
    /\ line[n + 6] = " "

\* strings.ToLower(matches[1]) == "x"
BoxChecked(c) == c = "x" \/ c = "X"

\* topLevelRe: ^- \[([ xX])\] ((?:F|R)*)\s*(.*)$
TopLevelMatch(line) ==
    IF ~BoxPrefixAt(line, 0)
    THEN [ok |-> FALSE, box |-> " ", markers |-> <<>>, text |-> <<>>]
    ELSE LET rest == Drop(line, 6)
             g    == GlyphRunLen(rest)
         IN  [ok |-> TRUE, box |-> line[4], markers |-> Take(rest, g),
              text |-> TrimLeft(Drop(rest, g))]

\* subTaskRe: ^  - \[([ xX])\] ([^:]+): (.*)$
SubTaskMatch(line) ==
    IF ~BoxPrefixAt(line, 2)
    THEN [ok |-> FALSE, box |-> " ", skill |-> <<>>, text |-> <<>>]
    ELSE LET rest == Drop(line, 8)
             i    == Index(rest, <<":">>)
         IN  IF i >= 2 /\ Len(rest) >= i + 1 /\ rest[i + 1] = " "
             THEN [ok |-> TRUE, box |-> line[6], skill |-> Take(rest, i - 1),
                   text |-> Drop(rest, i + 1)]
             ELSE [ok |-> FALSE, box |-> " ", skill |-> <<>>, text |-> <<>>]

\* a glyph-editing pattern that takes any line for a task line
GlyphLineMatch_AnyLine(line) ==
    [ok |-> TRUE, box |-> Take(line, 5), markers |-> <<>>, rest |-> Drop(line, 6)]

\* the glyph-editing pattern of AddFailure / AddReplanMarker:
\* ^(- \[[ xX]\]) ((?:F|R)*)(.*)$
GlyphLineMatch(line) ==
    IF ~BoxPrefixAt(line, 0)
    THEN [ok |-> FALSE, box |-> <<>>, markers |-> <<>>, rest |-> <<>>]
    ELSE LET rest == Drop(line, 6)
             g    == GlyphRunLen(rest)
         IN  [ok |-> TRUE, box |-> Take(line, 5), markers |-> Take(rest, g),
              rest |-> Drop(rest, g)]

\* the pattern of ClearFailures: ^(- \[[ xX]\]) ((?:F|R)*)\s*(.*)$
ClearLineMatch(line) ==
    IF ~BoxPrefixAt(line, 0)
    THEN [ok |-> FALSE, box |-> <<>>, markers |-> <<>>, rest |-> <<>>]
    ELSE LET rest == Drop(line, 6)
             g    == GlyphRunLen(rest)
         IN  [ok |-> TRUE, box |-> Take(line, 5), markers |-> Take(rest, g),
              rest |-> TrimLeft(Drop(rest, g))]

\* ParseSprintContent closing the open task at a line that is neither a task
\* nor a subtask
RECURSIVE ParseLines_ClosesOnInert(_, _, _, _)
ParseLines_ClosesOnInert(lines, i, tasks, cur) ==
    IF i > Len(lines) THEN tasks \o cur
    ELSE LET top == TopLevelMatch(lines[i])
             sub == SubTaskMatch(lines[i])
         IN  IF top.ok
             THEN ParseLines_ClosesOnInert(lines, i + 1, tasks \o cur,
                     << [Index        |-> Len(tasks) + Len(cur),
                         Text         |-> TrimSpace(top.text),
                         Checked      |-> BoxChecked(top.box),
                         LineNum      |-> i,
                         FailureCount |-> Count(top.markers, FailGlyph),
                         ReplanCount  |-> Count(top.markers, ReplanGlyph),
                         SubTasks     |-> <<>>] >>)
             ELSE IF cur /= <<>> /\ sub.ok
             THEN ParseLines_ClosesOnInert(lines, i + 1, tasks,
                     << [cur[1] EXCEPT !.SubTasks = @ \o
                         << [Index       |-> Len(cur[1].SubTasks),
                             Skill       |-> TrimSpace(sub.skill),
                             Text        |-> TrimSpace(sub.text),
                             Checked     |-> BoxChecked(sub.box),
                             LineNum     |-> i,
                             ParentIndex |-> cur[1].Index] >>] >>)
             ELSE ParseLines_ClosesOnInert(lines, i + 1, tasks \o cur, <<>>)

\* the loop of ParseSprintContent over lines[i..]; cur holds the open task
\* (zero or one element), tasks the tasks already closed
RECURSIVE ParseLines(_, _, _, _)
ParseLines(lines, i, tasks, cur) ==
    IF i > Len(lines) THEN tasks \o cur
    ELSE LET top == TopLevelMatch(lines[i])
             sub == SubTaskMatch(lines[i])
         IN  IF top.ok
             THEN ParseLines(lines, i + 1, tasks \o cur,
                     << [Index        |-> Len(tasks) + Len(cur),
                         Text         |-> TrimSpace(top.text),
                         Checked      |-> BoxChecked(top.box),
                         LineNum      |-> i,
                         FailureCount |-> Count(top.markers, FailGlyph),
                         ReplanCount  |-> Count(top.markers, ReplanGlyph),
                         SubTasks     |-> <<>>] >>)
             ELSE IF cur /= <<>> /\ sub.ok
             THEN ParseLines(lines, i + 1, tasks,
                     << [cur[1] EXCEPT !.SubTasks = @ \o
                         << [Index       |-> Len(cur[1].SubTasks),
                             Skill       |-> TrimSpace(sub.skill),
                             Text        |-> TrimSpace(sub.text),
                             Checked     |-> BoxChecked(sub.box),
                             LineNum     |-> i,
                             ParentIndex |-> cur[1].Index] >>] >>)
             ELSE ParseLines(lines, i + 1, tasks, cur)

\* a nil *SprintState
NilSprint == [nil |-> TRUE, FilePath |-> <<>>, Tasks |-> <<>>, Content |-> <<>>]

ParseSprintContent(content) ==
    [nil |-> FALSE, FilePath |-> <<>>,
     Tasks |-> ParseLines(Split(content), 1, <<>>, <<>>), Content |-> content]

\* IsComplete without the final len(s.Tasks) > 0
RECURSIVE IsCompleteFrom_Vacuous(_, _)
IsCompleteFrom_Vacuous(tasks, i) ==
    IF i > Len(tasks) THEN TRUE
    ELSE IF ~tasks[i].Checked THEN FALSE
    ELSE IsCompleteFrom_Vacuous(tasks, i + 1)

\* IsComplete: the loop returns false at the first unchecked task
RECURSIVE IsCompleteFrom(_, _)
IsCompleteFrom(tasks, i) ==
    IF i > Len(tasks) THEN Len(tasks) > 0
    ELSE IF ~tasks[i].Checked THEN FALSE
    ELSE IsCompleteFrom(tasks, i + 1)

IsComplete(s) == IsCompleteFrom(s.Tasks, 1)

\* a nil *SubTask
NoRet == [found |-> FALSE, task |-> 0, sub |-> 0]

\* GetNextSubTask: the first unchecked subtask found while walking the tasks
\* in order, skipping checked tasks
RECURSIVE FirstUncheckedSub(_, _)
FirstUncheckedSub(subs, j) ==
    IF j > Len(subs) THEN NoRet
    ELSE IF ~subs[j].Checked
    THEN [found |-> TRUE, task |-> subs[j].ParentIndex, sub |-> subs[j].Index]
    ELSE FirstUncheckedSub(subs, j + 1)

RECURSIVE NextSubTaskFrom(_, _)
NextSubTaskFrom(tasks, i) ==
    IF i > Len(tasks) THEN NoRet
    ELSE IF tasks[i].Checked THEN NextSubTaskFrom(tasks, i + 1)
    ELSE LET r == FirstUncheckedSub(tasks[i].SubTasks, 1)
         IN  IF r.found THEN r ELSE NextSubTaskFrom(tasks, i + 1)

GetNextSubTask(s) == NextSubTaskFrom(s.Tasks, 1)

\* result of a mutator: the handle afterwards, the error returned before any
\* write, and whether the mutator goes on to os.WriteFile
Failed_Silent(s) == [s |-> s, err |-> FALSE, write |-> FALSE]

Failed(s) == [s |-> s, err |-> TRUE, write |-> FALSE]

Unchanged(s) == [s |-> s, err |-> FALSE, write |-> FALSE]

Written(s) == [s |-> s, err |-> FALSE, write |-> TRUE]

\* a line edit that puts the new line in front of the old one instead of
\* replacing it
SetLine_InsertsLine(s, lineNum, newLine) ==
    [s EXCEPT !.Content = Join(Take(Split(s.Content), lineNum - 1) \o <<newLine>>
                                 \o Drop(Split(s.Content), lineNum - 1))]

SetLine(s, lineNum, newLine) ==
    [s EXCEPT !.Content = Join([Split(s.Content) EXCEPT ![lineNum] = newLine])]

BoxOpen == <<"[", " ", "]">>

BoxLower == <<"[", "x", "]">>

BoxUpper == <<"[", "X", "]">>

checkLineAt(s, lineNum) ==
    LET lines == Split(s.Content)
    IN  IF lineNum < 1 \/ lineNum > Len(lines) THEN Failed(s)
        ELSE LET line    == lines[lineNum]
                 newLine == ReplaceFirst(line, BoxOpen, BoxLower)
             IN  IF newLine = line THEN Unchanged(s)
                 ELSE Written(SetLine(s, lineNum, newLine))

uncheckLineAt(s, lineNum) ==
    LET lines == Split(s.Content)
    IN  IF lineNum < 1 \/ lineNum > Len(lines) THEN Failed(s)
        ELSE LET line == lines[lineNum]
                 n1   == ReplaceFirst(line, BoxLower, BoxOpen)
                 n2   == IF n1 = line THEN ReplaceFirst(line, BoxUpper, BoxOpen) ELSE n1
             IN  IF n2 = line THEN Unchanged(s)
                 ELSE Written(SetLine(s, lineNum, n2))

\* taskIndex < 0 || taskIndex >= len(s.Tasks)
BadTask(s, t) == t < 0 \/ t >= Len(s.Tasks)

BadSubTask(s, t, j) == j < 0 \/ j >= Len(s.Tasks[t + 1].SubTasks)

CheckSubTask(s, t, j) ==
    IF BadTask(s, t) THEN Failed(s)
    ELSE IF BadSubTask(s, t, j) THEN Failed(s)
    ELSE checkLineAt(s, s.Tasks[t + 1].SubTasks[j + 1].LineNum)

CheckTask(s, t) ==
    IF BadTask(s, t) THEN Failed(s)
    ELSE checkLineAt(s, s.Tasks[t + 1].LineNum)

UncheckSubTask(s, t, j) ==
    IF BadTask(s, t) THEN Failed(s)
    ELSE IF BadSubTask(s, t, j) THEN Failed(s)
    ELSE uncheckLineAt(s, s.Tasks[t + 1].SubTasks[j + 1].LineNum)

\* AddFailure / AddReplanMarker writing the new glyph in place of the glyph run
AddGlyph_DropsRun(s, t, glyph) ==
    IF BadTask(s, t) THEN Failed(s)
    ELSE LET lines   == Split(s.Content)
             lineNum == s.Tasks[t + 1].LineNum
         IN  IF lineNum < 1 \/ lineNum > Len(lines) THEN Failed(s)
             ELSE LET m == GlyphLineMatch(lines[lineNum])
                  IN  IF ~m.ok THEN Failed(s)
                      ELSE Written(SetLine(s, lineNum,
                                m.box \o <<" ">> \o <<glyph>> \o m.rest))

\* the body shared by AddFailure and AddReplanMarker: one glyph is put at the
\* end of the glyph run
AddGlyph(s, t, glyph) ==
    IF BadTask(s, t) THEN Failed(s)
    ELSE LET lines   == Split(s.Content)
             lineNum == s.Tasks[t + 1].LineNum
         IN  IF lineNum < 1 \/ lineNum > Len(lines) THEN Failed(s)
             ELSE LET m == GlyphLineMatch(lines[lineNum])
                  IN  IF ~m.ok THEN Failed(s)
                      ELSE Written(SetLine(s, lineNum,
                                m.box \o <<" ">> \o m.markers \o <<glyph>> \o m.rest))

AddFailure(s, t) ==
    LET r == AddGlyph(s, t, FailGlyph)
    IN  IF r.write
        THEN [r EXCEPT !.s.Tasks[t + 1].FailureCount = @ + 1]
        ELSE r

AddReplanMarker(s, t) ==
    LET r == AddGlyph(s, t, ReplanGlyph)
    IN  IF r.write
        THEN [r EXCEPT !.s.Tasks[t + 1].ReplanCount = @ + 1]
        ELSE r

ClearFailures(s, t) ==
    IF BadTask(s, t) THEN Failed(s)
    ELSE LET lines   == Split(s.Content)
             lineNum == s.Tasks[t + 1].LineNum
         IN  IF lineNum < 1 \/ lineNum > Len(lines) THEN Failed(s)
             ELSE LET m       == ClearLineMatch(lines[lineNum])
                      markers == RemoveAll(m.markers, FailGlyph)
                      newLine == IF markers = <<>>
                                 THEN m.box \o <<" ">> \o m.rest
                                 ELSE m.box \o <<" ">> \o markers \o m.rest
                  IN  IF ~m.ok THEN Failed(s)
                      ELSE Written([SetLine(s, lineNum, newLine)
                                      EXCEPT !.Tasks[t + 1].FailureCount = 0])

\* regexp \s+ replaced by one space
RECURSIVE CollapseSpaces(_)
CollapseSpaces(s) ==
    IF s = <<>> THEN <<>>
    ELSE IF IsSpace(Head(s)) THEN <<" ">> \o CollapseSpaces(TrimLeft(s))
    ELSE <<Head(s)>> \o CollapseSpaces(Tail(s))

NormalizeTaskText(text) ==
    TrimSpace(CollapseSpaces(
        RemoveAll(RemoveAll(TrimSpace(text), FailGlyph), ReplanGlyph)))

(***************************************************************************)
(* The project directory as seen through fs.FS                             *)
(***************************************************************************)

\* largest number of entries of .ai/sprints
MaxSprintEntries == 2

MdSuffix == <<".", "m", "d">>

SprintsPrefix == <<".", "a", "i", "/", "s", "p", "r", "i", "n", "t", "s", "/">>

\* entry names that .ai/sprints may hold
SprintNames ==
    { <<"0", "1", "-", "a">> \o MdSuffix,
      <<"1", "0", "-", "c">> \o MdSuffix,
      <<"n">> \o MdSuffix,
      <<"0", "3", "-", "d", ".", "t", "x", "t">> }

\* the interview's completion phrases, each phrase one element
AllAnswered == "All questions answered"

StatusComplete == "Status: COMPLETE"

InterviewTexts ==
    { <<"#", " ", "i", NL, "-", " ", "[", " ", "]", " ", AllAnswered, NL>>,
      <<"#", " ", "i", NL, "-", " ", "[", "x", "]", " ", AllAnswered, NL>>,
      <<"#", " ", "i", NL, "-", " ", "[", "x", "]", " ", AllAnswered, " ", "(", "c", ")", NL>>,
      <<"-", " ", "[", "X", "]", " ", AllAnswered>>,
      <<"#", " ", "i", NL, StatusComplete, NL>>,
      <<"#", " ", "i", NL, "-", " ", "[", "x", "]", " ", "a", NL>>,
      <<"#", " ", "i", NL>> }

\* sprint documents a sprint file may hold
SprintFileTexts ==
    { <<"-", " ", "[", "X", "]", " ", "a", NL,
        " ", " ", "-", " ", "[", "x", "]", " ", "s", ":", " ", "a", NL>>,
      <<"-", " ", "[", "x", "]", " ", "a", NL,
        "-", " ", "[", " ", "]", " ", "b", NL,
        " ", " ", "-", " ", "[", " ", "]", " ", "s", ":", " ", "a">>,
      <<"#", " ", "h", NL>> }

\* a path of the tree: absent, a directory, or a file whose read succeeds
\* (data) or fails
Absent == [kind |-> "absent", readable |-> FALSE, data |-> <<>>]

Directory == [kind |-> "dir", readable |-> FALSE, data |-> <<>>]

Unreadable == [kind |-> "file", readable |-> FALSE, data |-> <<>>]

File(text) == [kind |-> "file", readable |-> TRUE, data |-> text]

InterviewEntries == {Unreadable} \cup {File(t) : t \in InterviewTexts}

SprintEntries == {Directory, Unreadable} \cup {File(t) : t \in SprintFileTexts}

\* the snapshot GetStatus reads
Snapshot ==
    [goal |-> goal, interview |-> interview, overview |-> overview,
     decisions |-> decisions, sprintsDir |-> sprintsDir, sprints |-> sprints]

\* ParseInterviewStatus without the legacy format
ParseInterviewStatus_NoLegacy(content) ==
    IF \/ Contains(content, <<"-", " ", "[", "x", "]", " ", AllAnswered>>)
       \/ Contains(content, <<"-", " ", "[", "X", "]", " ", AllAnswered>>)
    THEN TRUE
    ELSE FALSE

\* ParseInterviewStatus that knows the lower-case check mark only
ParseInterviewStatus_LowerOnly(content) ==
    IF Contains(content, <<"-", " ", "[", "x", "]", " ", AllAnswered>>) THEN TRUE
    ELSE IF Contains(content, <<StatusComplete>>) THEN TRUE
    ELSE FALSE

\* logging.ParseInterviewStatus
ParseInterviewStatus(content) ==
    IF \/ Contains(content, <<"-", " ", "[", "x", "]", " ", AllAnswered>>)
       \/ Contains(content, <<"-", " ", "[", "X", "]", " ", AllAnswered>>)
    THEN TRUE
    ELSE IF Contains(content, <<StatusComplete>>) THEN TRUE
    ELSE FALSE

\* fs.ReadFile of .ai/sprints/<name>, then ParseSprintContent
ParseSprintFS(F, path) ==
    LET name == Drop(path, Len(SprintsPrefix))
        e    == IF HasPrefix(path, SprintsPrefix) /\ F.sprintsDir /\ name \in DOMAIN F.sprints
                THEN F.sprints[name] ELSE Absent
    IN  IF e.kind = "file" /\ e.readable
        THEN [err |-> FALSE, sprint |-> [ParseSprintContent(e.data) EXCEPT !.FilePath = path]]
        ELSE [err |-> TRUE, sprint |-> NilSprint]

\* number of leading digits: ^(\d+)
RECURSIVE DigitRunLen(_)
DigitRunLen(s) ==
    IF s /= <<>> /\ IsDigit(Head(s)) THEN 1 + DigitRunLen(Tail(s)) ELSE 0

\* fmt.Sscanf(digits, "%d", &num)
RECURSIVE Atoi(_, _)
Atoi(s, acc) == IF s = <<>> THEN acc ELSE Atoi(Tail(s), acc * 10 + DigitVal(Head(s)))

ExtractSprintNum(filename) ==
    LET n == DigitRunLen(filename)
    IN  IF n > 0 THEN Atoi(Take(filename, n), 0) ELSE 0

\* the loop of FindCurrentSprintFS without the completeness test
RECURSIVE FirstIncomplete_AnyParsed(_, _, _)
FirstIncomplete_AnyParsed(F, files, i) ==
    IF i > Len(files) THEN [found |-> FALSE, path |-> <<>>, num |-> 0]
    ELSE LET path == SprintsPrefix \o files[i]
             p    == ParseSprintFS(F, path)
         IN  IF p.err THEN FirstIncomplete_AnyParsed(F, files, i + 1)
             ELSE [found |-> TRUE, path |-> path, num |-> ExtractSprintNum(files[i])]

\* the "find first incomplete sprint" loop of FindCurrentSprintFS
RECURSIVE FirstIncomplete(_, _, _)
FirstIncomplete(F, files, i) ==
    IF i > Len(files) THEN [found |-> FALSE, path |-> <<>>, num |-> 0]
    ELSE LET path == SprintsPrefix \o files[i]
             p    == ParseSprintFS(F, path)
         IN  IF p.err THEN FirstIncomplete(F, files, i + 1)
             ELSE IF ~IsComplete(p.sprint)
             THEN [found |-> TRUE, path |-> path, num |-> ExtractSprintNum(files[i])]
             ELSE FirstIncomplete(F, files, i + 1)

FindCurrentSprintFS(F) ==
    IF ~F.sprintsDir THEN [path |-> <<>>, num |-> 0]
    ELSE LET sprintFiles ==
                 SortStrings({n \in DOMAIN F.sprints :
                                /\ F.sprints[n].kind = "file"
                                /\ HasSuffix(n, MdSuffix)})
             first == FirstIncomplete(F, sprintFiles, 1)
         IN  IF first.found THEN [path |-> first.path, num |-> first.num]
             ELSE IF Len(sprintFiles) > 0
             THEN [path |-> SprintsPrefix \o sprintFiles[Len(sprintFiles)],
                   num  |-> ExtractSprintNum(sprintFiles[Len(sprintFiles)])]
             ELSE [path |-> <<>>, num |-> 0]

PhaseInterview == "interview"

PhaseDesign == "design"

PhaseDecisions == "decisions"

PhaseSprint == "sprint"

PhaseExecution == "execution"

Phases == {PhaseInterview, PhaseDesign, PhaseDecisions, PhaseSprint, PhaseExecution}

\* derivePhase with the design overview looked at before the interview
derivePhase_OverviewFirst(r) ==
    IF ~r.HasGoal THEN PhaseInterview
    ELSE IF ~r.HasDesignOverview THEN PhaseDesign
    ELSE IF ~r.InterviewExists \/ ~r.InterviewComplete THEN PhaseInterview
    ELSE IF ~r.HasDesignDecisions THEN PhaseDecisions
    ELSE IF r.CurrentSprintPath = <<>> THEN PhaseSprint
    ELSE PhaseExecution

\* derivePhase with the sprint rule tried before the decisions rule
derivePhase_SprintFirst(r) ==
    IF ~r.HasGoal THEN PhaseInterview
    ELSE IF ~r.InterviewExists \/ ~r.InterviewComplete THEN PhaseInterview
    ELSE IF ~r.HasDesignOverview THEN PhaseDesign
    ELSE IF r.CurrentSprintPath /= <<>> THEN PhaseExecution
    ELSE IF ~r.HasDesignDecisions THEN PhaseDecisions
    ELSE PhaseSprint

derivePhase(r) ==
    IF ~r.HasGoal THEN PhaseInterview
    ELSE IF ~r.InterviewExists \/ ~r.InterviewComplete THEN PhaseInterview
    ELSE IF ~r.HasDesignOverview THEN PhaseDesign
    ELSE IF ~r.HasDesignDecisions THEN PhaseDecisions
    ELSE IF r.CurrentSprintPath = <<>> THEN PhaseSprint
    ELSE PhaseExecution

\* StatusResult{} (DesignFiles and Skills, which no decision reads, are left out)
ZeroStatus ==
    [HasGoal |-> FALSE, Phase |-> "", InterviewExists |-> FALSE,
     InterviewComplete |-> FALSE, HasDesignOverview |-> FALSE,
     HasDesignDecisions |-> FALSE, CurrentSprintPath |-> <<>>,
     CurrentSprintNum |-> 0, Sprint |-> NilSprint]

GetStatus(F) ==
    IF ~F.goal THEN [ZeroStatus EXCEPT !.Phase = PhaseInterview]
    ELSE LET cur == FindCurrentSprintFS(F)
             p   == ParseSprintFS(F, cur.path)
             r   == [ZeroStatus EXCEPT
                       !.HasGoal = TRUE,
                       !.InterviewExists = F.interview.kind /= "absent",
                       !.InterviewComplete =
                           IF F.interview.kind /= "absent" /\ F.interview.readable
                           THEN ParseInterviewStatus(F.interview.data) ELSE FALSE,
                       !.HasDesignOverview = F.overview,
                       !.HasDesignDecisions = F.decisions,
                       !.CurrentSprintPath = cur.path,
                       !.CurrentSprintNum = cur.num,
                       !.Sprint = IF cur.path /= <<>> /\ ~p.err THEN p.sprint ELSE NilSprint]
         IN  [r EXCEPT !.Phase = derivePhase(r)]

ExitDone == 0

ExitMoreWork == 1

ExitError == 2

ExitHumanNeeded == 255

\* GetExitCode with the phase rules tried before the interview rule
GetExitCode_PhaseFirst(r) ==
    IF ~r.HasGoal THEN ExitHumanNeeded
    ELSE IF r.Phase = PhaseExecution /\ ~r.Sprint.nil /\ IsComplete(r.Sprint) THEN ExitDone
    ELSE IF r.InterviewExists /\ ~r.InterviewComplete THEN ExitHumanNeeded
    ELSE ExitMoreWork

GetExitCode(r) ==
    IF ~r.HasGoal THEN ExitHumanNeeded
    ELSE IF r.InterviewExists /\ ~r.InterviewComplete THEN ExitHumanNeeded
    ELSE IF r.Phase /= PhaseExecution THEN ExitMoreWork
    ELSE IF r.Sprint.nil THEN ExitMoreWork
    ELSE IF IsComplete(r.Sprint) THEN ExitDone
    ELSE ExitMoreWork

(***************************************************************************)
(* Specification SpecStatus: the project tree changes, agate status reads  *)
(***************************************************************************)

NoStatus == [valid |-> FALSE, r |-> ZeroStatus, code |-> ExitError]

NoCurrent == [valid |-> FALSE, path |-> <<>>, num |-> 0]

\* the variables of the other specifications, at rest
NoOp == [op |-> "none", task |-> 0, sub |-> 0, ret |-> NoRet]

ExitIdle == probe = NoStatus

SprintIdle ==
    /\ disk = <<>>
    /\ handle = NilSprint
    /\ lastOp = NoOp
    /\ lastErr = FALSE
    /\ adds = <<>>
    /\ onlyAdds = FALSE
    /\ nOps = 0

\* no call has returned, no merge is under way
NoOut == [op |-> "none", n |-> 0, m |-> 0, b |-> FALSE]

\* no agent has returned anything
NoResult == [Error |-> FALSE, Output |-> <<>>]

CallIdle ==
    /\ out = NoOut
    /\ oldDisk = Absent
    /\ newDisk = Absent
    /\ execResult = NoResult

\* agate auto is not running
AutoIdle ==
    /\ pc = "idle"
    /\ step = 0
    /\ consecutiveErrors = 0
    /\ ret = -1
    /\ calls = <<>>
    /\ codes = <<>>
    /\ stdin = <<>>
    /\ inputCh = <<>>

InitStatus ==
    /\ goal = FALSE
    /\ interview = Absent
    /\ overview = FALSE
    /\ decisions = FALSE
    /\ sprintsDir = FALSE
    /\ sprints = [n \in SprintNames |-> Absent]
    /\ status = NoStatus
    /\ current = NoCurrent
    /\ ExitIdle
    /\ SprintIdle
    /\ CallIdle
    /\ AutoIdle

\* GOAL.md is created or deleted
SetGoal ==
    /\ goal' = ~goal
    /\ status' = NoStatus
    /\ current' = NoCurrent
    /\ UNCHANGED <<interview, overview, decisions, sprintsDir, sprints, exitVars, sprintVars, callVars, autoVars>>

\* .ai/interview.md is written, replaced or deleted
WriteInterview ==
    /\ \E e \in InterviewEntries \cup {Absent} :
          /\ e /= interview
          /\ interview' = e
    /\ status' = NoStatus
    /\ current' = NoCurrent
    /\ UNCHANGED <<goal, overview, decisions, sprintsDir, sprints, exitVars, sprintVars, callVars, autoVars>>

\* .ai/design/overview.md is created or deleted
SetOverview ==
    /\ overview' = ~overview
    /\ status' = NoStatus
    /\ current' = NoCurrent
    /\ UNCHANGED <<goal, interview, decisions, sprintsDir, sprints, exitVars, sprintVars, callVars, autoVars>>

\* .ai/design/decisions.md is created or deleted
SetDecisions ==
    /\ decisions' = ~decisions
    /\ status' = NoStatus
    /\ current' = NoCurrent
    /\ UNCHANGED <<goal, interview, overview, sprintsDir, sprints, exitVars, sprintVars, callVars, autoVars>>

\* .ai/sprints is created empty, or removed with everything in it
SetSprintsDir ==
    /\ sprintsDir' = ~sprintsDir
    /\ sprints' = [n \in SprintNames |-> Absent]
    /\ status' = NoStatus
    /\ current' = NoCurrent
    /\ UNCHANGED <<goal, interview, overview, decisions, exitVars, sprintVars, callVars, autoVars>>

\* an entry of .ai/sprints is written, replaced or removed
WriteSprintEntry ==
    /\ sprintsDir
    /\ \E n \in SprintNames, e \in SprintEntries \cup {Absent} :
          /\ e /= sprints[n]
          /\ sprints' = [sprints EXCEPT ![n] = e]
          /\ Cardinality({m \in SprintNames : sprints'[m] /= Absent}) <= MaxSprintEntries
    /\ status' = NoStatus
    /\ current' = NoCurrent
    /\ UNCHANGED <<goal, interview, overview, decisions, sprintsDir, exitVars, sprintVars, callVars, autoVars>>

\* agate status: GetStatus on the tree, then GetExitCode (a second run on an
\* unchanged tree reports the same again and is left out)
RunStatus ==
    /\ ~status.valid
    /\ LET r == GetStatus(Snapshot)
       IN  status' = [valid |-> TRUE, r |-> r, code |-> GetExitCode(r)]
    /\ UNCHANGED <<goal, interview, overview, decisions, sprintsDir, sprints, current, exitVars, sprintVars, callVars, autoVars>>

\* a caller asks for the current sprint: FindCurrentSprintFS on the tree
RunFindCurrentSprint ==
    /\ ~current.valid
    /\ LET cur == FindCurrentSprintFS(Snapshot)
       IN  current' = [valid |-> TRUE, path |-> cur.path, num |-> cur.num]
    /\ UNCHANGED <<goal, interview, overview, decisions, sprintsDir, sprints, status, exitVars, sprintVars, callVars, autoVars>>

NextStatus ==
    \/ SetGoal
    \/ WriteInterview
    \/ SetOverview
    \/ SetDecisions
    \/ SetSprintsDir
    \/ WriteSprintEntry
    \/ RunStatus
    \/ RunFindCurrentSprint

SpecStatus == InitStatus /\ [][NextStatus]_vars

(***************************************************************************)
(* Specification SpecExit: GetExitCode applied to any StatusResult         *)
(***************************************************************************)

\* largest number of tasks of a hand-built sprint
MaxProbeTasks == 2

\* SprintState{Tasks: []Task{{Checked: c1}, ...}}
TaskOf(i, c) ==
    [Index |-> i, Text |-> <<>>, Checked |-> c, LineNum |-> 0,
     FailureCount |-> 0, ReplanCount |-> 0, SubTasks |-> <<>>]

ProbeSprints ==
    {NilSprint} \cup
    { [nil |-> FALSE, FilePath |-> <<>>, Content |-> <<>>,
       Tasks |-> [i \in 1..n |-> TaskOf(i - 1, cs[i])]] :
         n \in 0..MaxProbeTasks, cs \in [1..MaxProbeTasks -> BOOLEAN] }

StatusResults ==
    { [ZeroStatus EXCEPT !.HasGoal = f[1], !.InterviewExists = f[2],
           !.InterviewComplete = f[3], !.HasDesignOverview = f[4],
           !.HasDesignDecisions = f[5], !.Phase = ph, !.Sprint = sp,
           !.CurrentSprintPath = IF f[6] THEN SprintsPrefix \o <<"n">> \o MdSuffix ELSE <<>>] :
         f \in [1..6 -> BOOLEAN], ph \in Phases, sp \in ProbeSprints }

InitExit ==
    /\ probe \in {[valid |-> FALSE, r |-> r, code |-> ExitError] : r \in StatusResults}
    /\ goal = FALSE
    /\ interview = Absent
    /\ overview = FALSE
    /\ decisions = FALSE
    /\ sprintsDir = FALSE
    /\ sprints = [n \in SprintNames |-> Absent]
    /\ status = NoStatus
    /\ current = NoCurrent
    /\ SprintIdle
    /\ CallIdle
    /\ AutoIdle

\* the caller that built the StatusResult hands it to GetExitCode
EvalExitCode ==
    /\ ~probe.valid
    /\ probe' = [valid |-> TRUE, r |-> probe.r, code |-> GetExitCode(probe.r)]
    /\ UNCHANGED <<fsVars, sprintVars, callVars, autoVars>>

NextExit == EvalExitCode

SpecExit == InitExit /\ [][NextExit]_vars

(***************************************************************************)
(* Properties of the phase derivation and the exit-code policy             *)
(***************************************************************************)

\* the regular .md files of .ai/sprints
SprintFileNames ==
    IF sprintsDir
    THEN {n \in SprintNames : sprints[n].kind = "file" /\ HasSuffix(n, MdSuffix)}
    ELSE {}

InterviewMarkedComplete ==
    /\ interview.kind = "file"
    /\ interview.readable
    /\ \/ Contains(interview.data, <<"-", " ", "[", "x", "]", " ", AllAnswered>>)
       \/ Contains(interview.data, <<"-", " ", "[", "X", "]", " ", AllAnswered>>)
       \/ Contains(interview.data, <<StatusComplete>>)

\* the phase named by the first rule of the lattice that matches the tree
FirstMatchingRule ==
    IF ~goal THEN PhaseInterview
    ELSE IF interview = Absent \/ ~InterviewMarkedComplete THEN PhaseInterview
    ELSE IF ~overview THEN PhaseDesign
    ELSE IF ~decisions THEN PhaseDecisions
    ELSE IF SprintFileNames = {} THEN PhaseSprint
    ELSE PhaseExecution

\* C1: for every tree, GetStatus reports the phase of the first matching rule
\* (no goal, interview absent or not complete, no overview, no decisions, no
\* sprint file, else execution); a later rule never overrides an earlier one.
C1_FirstMatchWins == status.valid => status.r.Phase = FirstMatchingRule

\* C1 witness: a sprint file exists but the decisions file does not, and the
\* reported phase is decisions.
C1_Witness ==
    /\ status.valid
    /\ goal /\ InterviewMarkedComplete /\ overview /\ ~decisions
    /\ SprintFileNames /= {}
    /\ status.r.Phase = PhaseDecisions

\* C2: GetExitCode returns exactly one of 0, 1, 255 and never 2, and returns
\* 255 whenever the goal is absent or an interview exists that is not complete,
\* whatever the phase, the design flags and the sprint are.
C2_ExitCodeTotal ==
    probe.valid =>
        /\ probe.code \in {ExitDone, ExitMoreWork, ExitHumanNeeded}
        /\ probe.code /= ExitError
        /\ (~probe.r.HasGoal \/ (probe.r.InterviewExists /\ ~probe.r.InterviewComplete))
              => probe.code = ExitHumanNeeded

\* C2 witness: an incomplete interview beside an execution phase whose sprint
\* is all checked still gives 255.
C2_Witness ==
    /\ probe.valid
    /\ probe.r.HasGoal /\ probe.r.InterviewExists /\ ~probe.r.InterviewComplete
    /\ probe.r.Phase = PhaseExecution /\ probe.r.HasDesignOverview
    /\ ~probe.r.Sprint.nil /\ Len(probe.r.Sprint.Tasks) > 0
    /\ \A i \in 1..Len(probe.r.Sprint.Tasks) : probe.r.Sprint.Tasks[i].Checked
    /\ probe.code = ExitHumanNeeded

\* a sprint document is done: it has a task line and every task line is checked
TextAllChecked(text) ==
    LET ts == ParseSprintContent(text).Tasks
    IN  Len(ts) > 0 /\ \A i \in 1..Len(ts) : ts[i].Checked

\* C3: the exit code of agate status is 0 only when the phase is execution and
\* every sprint file of .ai/sprints is complete.
C3_ZeroMeansAllSprintsDone ==
    (status.valid /\ status.code = ExitDone) =>
        /\ status.r.Phase = PhaseExecution
        /\ \A n \in SprintFileNames : sprints[n].readable /\ TextAllChecked(sprints[n].data)

InterviewHasUncheckedBox ==
    /\ interview.kind = "file"
    /\ interview.readable
    /\ Contains(interview.data, <<"-", " ", "[", " ", "]", " ", AllAnswered>>)
    /\ ~InterviewMarkedComplete

InterviewHasCheckedBox ==
    /\ interview.kind = "file"
    /\ interview.readable
    /\ \/ Contains(interview.data, <<"-", " ", "[", "x", "]", " ", AllAnswered>>)
       \/ Contains(interview.data, <<"-", " ", "[", "X", "]", " ", AllAnswered>>)

\* C4: with GOAL.md and no interview file the phase is interview and the exit
\* code is 1; while an interview file with an unchecked completion box exists
\* the phase is interview and the exit code 255; once the box is checked and
\* no design overview exists the phase is design and the exit code 1.
C4_InterviewHandOff ==
    status.valid =>
        /\ (goal /\ interview = Absent) =>
              (status.r.Phase = PhaseInterview /\ status.code = ExitMoreWork)
        /\ (goal /\ InterviewHasUncheckedBox) =>
              (status.r.Phase = PhaseInterview /\ status.code = ExitHumanNeeded)
        /\ (goal /\ InterviewHasCheckedBox /\ ~overview) =>
              (status.r.Phase = PhaseDesign /\ status.code = ExitMoreWork)

\* C4 witness: the box of the interview is checked, no overview exists, and
\* agate status has reported design with exit code 1.
C4_Witness ==
    /\ status.valid
    /\ goal /\ InterviewHasCheckedBox /\ ~overview
    /\ status.r.Phase = PhaseDesign
    /\ status.code = ExitMoreWork

\* the number a sprint file name starts with
NameNumber(n) ==
    CASE n = <<"0", "1", "-", "a">> \o MdSuffix -> 1
      [] n = <<"1", "0", "-", "c">> \o MdSuffix -> 10
      [] OTHER -> 0

IncompleteSprintFiles ==
    {n \in SprintFileNames : sprints[n].readable /\ ~TextAllChecked(sprints[n].data)}

\* C5: FindCurrentSprintFS returns the first .md file, in lexicographic order,
\* whose parsed sprint is not complete, with the number of its leading digits;
\* the last file when every sprint is complete; the empty path and 0 when the
\* directory cannot be listed or holds no sprint file.
C5_CurrentSprint ==
    current.valid =>
        /\ IncompleteSprintFiles /= {} =>
              \E n \in IncompleteSprintFiles :
                 /\ \A m \in IncompleteSprintFiles \ {n} : StrLess(n, m)
                 /\ current.path = SprintsPrefix \o n
                 /\ current.num = NameNumber(n)
        /\ (/\ SprintFileNames /= {}
            /\ \A n \in SprintFileNames : sprints[n].readable /\ TextAllChecked(sprints[n].data)) =>
              \E n \in SprintFileNames :
                 /\ \A m \in SprintFileNames \ {n} : StrLess(m, n)
                 /\ current.path = SprintsPrefix \o n
                 /\ current.num = NameNumber(n)
        /\ SprintFileNames = {} => (current.path = <<>> /\ current.num = 0)

\* C5 witness: 01-a.md is complete, 10-c.md is not, and the current sprint is
\* 10-c.md with number 10.
C5_Witness ==
    /\ current.valid
    /\ sprintsDir
    /\ sprints[<<"0", "1", "-", "a">> \o MdSuffix].readable
    /\ TextAllChecked(sprints[<<"0", "1", "-", "a">> \o MdSuffix].data)
    /\ sprints[<<"1", "0", "-", "c">> \o MdSuffix].readable
    /\ ~TextAllChecked(sprints[<<"1", "0", "-", "c">> \o MdSuffix].data)
    /\ current.path = SprintsPrefix \o <<"1", "0", "-", "c">> \o MdSuffix
    /\ current.num = 10

(***************************************************************************)
(* Specification SpecSprint: one sprint file and one parsed handle          *)
(***************************************************************************)

\* largest number of lines of a sprint document
MaxLines == 3

\* largest number of mutator calls in one run
MaxOps == 3

TaskOpen == <<"-", " ", "[", " ", "]", " ", "a">>

TaskDone == <<"-", " ", "[", "x", "]", " ", "b">>

TaskSpacedGlyphs == <<"-", " ", "[", " ", "]", " ", ReplanGlyph, " ", FailGlyph, " ", "a">>

TaskGlyphs == <<"-", " ", "[", " ", "]", " ", FailGlyph, ReplanGlyph, FailGlyph, " ", "a">>

TaskGlyphInText == <<"-", " ", "[", " ", "]", " ", " ", FailGlyph, " ", "a">>

SubOpen == <<" ", " ", "-", " ", "[", " ", "]", " ", "s", ":", " ", "a">>

SubDone == <<" ", " ", "-", " ", "[", "X", "]", " ", "s", ":", " ", "b">>

SubBoxInText == <<" ", " ", "-", " ", "[", " ", "]", " ", "s", ":", " ", "[", " ", "]">>

SubUpperBoxInText == <<" ", " ", "-", " ", "[", "X", "]", " ", "s", ":", " ", "[", "x", "]">>

Heading == <<"#", " ", "h">>

SprintLines ==
    {TaskOpen, TaskDone, TaskSpacedGlyphs, TaskGlyphs, SubOpen, SubDone, SubBoxInText, Heading}

\* every document of at most MaxLines lines
SprintDocs ==
    {<<>>} \cup UNION { {Join(ls) : ls \in [1..n -> SprintLines]} : n \in 1..MaxLines }

\* task indices a caller may pass: the valid ones, one below and one above
TaskIndices == -1..Len(handle.Tasks)

\* subtask indices a caller may pass with task index t
SubIndices(t) == IF BadTask(handle, t) THEN {0} ELSE -1..Len(handle.Tasks[t + 1].SubTasks)

\* outcomes of os.WriteFile
WriteOutcomes == BOOLEAN

\* successful AddFailure (f) and AddReplanMarker (r) calls on a task since it was
\* parsed, and whether it was parsed without glyphs
NoAdds == [f |-> 0, r |-> 0, clean |-> FALSE]

\* the documents the mutators are run on
MutationDocs ==
    { <<>>,
      Join(<<TaskOpen, SubOpen>>),
      Join(<<TaskOpen, SubBoxInText>>),
      Join(<<TaskOpen, SubUpperBoxInText>>),
      Join(<<TaskSpacedGlyphs>>),
      Join(<<TaskGlyphInText>>),
      Join(<<TaskGlyphs, SubOpen>>),
      Join(<<Heading, TaskDone, SubDone>>),
      Join(<<TaskOpen, TaskOpen, SubOpen>>),
      Join(<<SubOpen, TaskDone>>) }

InitSprint ==
    /\ disk \in MutationDocs
    /\ handle = NilSprint
    /\ lastOp = NoOp
    /\ lastErr = FALSE
    /\ adds = <<>>
    /\ onlyAdds = FALSE
    /\ nOps = 0
    /\ goal = FALSE
    /\ interview = Absent
    /\ overview = FALSE
    /\ decisions = FALSE
    /\ sprintsDir = FALSE
    /\ sprints = [n \in SprintNames |-> Absent]
    /\ status = NoStatus
    /\ current = NoCurrent
    /\ ExitIdle
    /\ CallIdle
    /\ AutoIdle

\* ParseSprint(path): the file is read and parsed into a fresh handle
DoParseSprint ==
    /\ handle' = [ParseSprintContent(disk) EXCEPT !.FilePath = <<"s">>]
    /\ lastOp' = [NoOp EXCEPT !.op = "ParseSprint"]
    /\ lastErr' = FALSE
    /\ adds' = [i \in 1..Len(handle'.Tasks) |->
                  [NoAdds EXCEPT !.clean = /\ handle'.Tasks[i].FailureCount = 0
                                          /\ handle'.Tasks[i].ReplanCount = 0]]
    /\ onlyAdds' = TRUE
    /\ UNCHANGED <<disk, nOps, fsVars, exitVars, callVars, autoVars>>

\* the effect of a mutator that returned res, its os.WriteFile succeeding (ok)
\* or failing
Commit(name, t, j, res, ok) ==
    /\ nOps < MaxOps
    /\ nOps' = nOps + 1
    /\ handle' = res.s
    /\ disk' = IF res.write /\ ok THEN res.s.Content ELSE disk
    /\ lastErr' = (res.err \/ (res.write /\ ~ok))
    /\ lastOp' = [op |-> name, task |-> t, sub |-> j, ret |-> NoRet]
    /\ UNCHANGED <<fsVars, exitVars, callVars, autoVars>>

DoCheckSubTask ==
    /\ ~handle.nil
    /\ \E t \in TaskIndices : \E j \in SubIndices(t), ok \in WriteOutcomes :
          Commit("CheckSubTask", t, j, CheckSubTask(handle, t, j), ok)
    /\ onlyAdds' = FALSE
    /\ adds' = adds

DoCheckTask ==
    /\ ~handle.nil
    /\ \E t \in TaskIndices, ok \in WriteOutcomes :
          Commit("CheckTask", t, 0, CheckTask(handle, t), ok)
    /\ onlyAdds' = FALSE
    /\ adds' = adds

DoUncheckSubTask ==
    /\ ~handle.nil
    /\ \E t \in TaskIndices : \E j \in SubIndices(t), ok \in WriteOutcomes :
          Commit("UncheckSubTask", t, j, UncheckSubTask(handle, t, j), ok)
    /\ onlyAdds' = FALSE
    /\ adds' = adds

DoAddFailure ==
    /\ ~handle.nil
    /\ \E t \in TaskIndices, ok \in WriteOutcomes :
          /\ Commit("AddFailure", t, 0, AddFailure(handle, t), ok)
          /\ LET good == AddFailure(handle, t).write /\ ok
             IN  /\ onlyAdds' = (onlyAdds /\ good)
                 /\ adds' = IF good THEN [adds EXCEPT ![t + 1].f = @ + 1] ELSE adds

DoAddReplanMarker ==
    /\ ~handle.nil
    /\ \E t \in TaskIndices, ok \in WriteOutcomes :
          /\ Commit("AddReplanMarker", t, 0, AddReplanMarker(handle, t), ok)
          /\ LET good == AddReplanMarker(handle, t).write /\ ok
             IN  /\ onlyAdds' = (onlyAdds /\ good)
                 /\ adds' = IF good THEN [adds EXCEPT ![t + 1].r = @ + 1] ELSE adds

DoClearFailures ==
    /\ ~handle.nil
    /\ \E t \in TaskIndices, ok \in WriteOutcomes :
          Commit("ClearFailures", t, 0, ClearFailures(handle, t), ok)
    /\ onlyAdds' = FALSE
    /\ adds' = adds

\* a caller asks the handle whether the sprint is complete
DoIsComplete ==
    /\ ~handle.nil
    /\ lastOp' = [NoOp EXCEPT !.op = "IsComplete",
                              !.ret = [NoRet EXCEPT !.found = IsComplete(handle)]]
    /\ lastErr' = FALSE
    /\ UNCHANGED <<disk, handle, adds, onlyAdds, nOps, fsVars, exitVars, callVars, autoVars>>

\* a caller asks the handle for the next subtask
DoGetNextSubTask ==
    /\ ~handle.nil
    /\ lastOp' = [NoOp EXCEPT !.op = "GetNextSubTask",
                              !.ret = GetNextSubTask(handle)]
    /\ lastErr' = FALSE
    /\ UNCHANGED <<disk, handle, adds, onlyAdds, nOps, fsVars, exitVars, callVars, autoVars>>

NextSprint ==
    \/ DoParseSprint
    \/ DoCheckSubTask
    \/ DoCheckTask
    \/ DoUncheckSubTask
    \/ DoAddFailure
    \/ DoAddReplanMarker
    \/ DoClearFailures

SpecSprint == InitSprint /\ [][NextSprint]_vars

(***************************************************************************)
(* Specification SpecQuery: any document is parsed and the handle queried  *)
(***************************************************************************)

InitQuery ==
    /\ disk \in SprintDocs
    /\ handle = NilSprint
    /\ lastOp = NoOp
    /\ lastErr = FALSE
    /\ adds = <<>>
    /\ onlyAdds = FALSE
    /\ nOps = 0
    /\ goal = FALSE
    /\ interview = Absent
    /\ overview = FALSE
    /\ decisions = FALSE
    /\ sprintsDir = FALSE
    /\ sprints = [n \in SprintNames |-> Absent]
    /\ status = NoStatus
    /\ current = NoCurrent
    /\ ExitIdle
    /\ CallIdle
    /\ AutoIdle

NextQuery ==
    \/ DoParseSprint
    \/ DoIsComplete
    \/ DoGetNextSubTask

SpecQuery == InitQuery /\ [][NextQuery]_vars

(***************************************************************************)
(* Properties of the sprint document                                       *)
(***************************************************************************)

UncheckedTasks == {i \in 1..Len(handle.Tasks) : ~handle.Tasks[i].Checked}

UncheckedSubs(i) ==
    {j \in 1..Len(handle.Tasks[i].SubTasks) : ~handle.Tasks[i].SubTasks[j].Checked}

Least(S) == CHOOSE x \in S : \A y \in S : x <= y

\* C7: GetNextSubTask looks only at the first unchecked task: it returns that
\* task's first unchecked subtask, and none if every task is checked or that
\* task has no unchecked subtask; it never returns a later task's subtask.
C7_NextSubTaskOfFirstUncheckedTask ==
    lastOp.op = "GetNextSubTask" =>
        IF UncheckedTasks = {} THEN ~lastOp.ret.found
        ELSE IF UncheckedSubs(Least(UncheckedTasks)) = {} THEN ~lastOp.ret.found
        ELSE /\ lastOp.ret.found
             /\ lastOp.ret.task = Least(UncheckedTasks) - 1
             /\ lastOp.ret.sub = Least(UncheckedSubs(Least(UncheckedTasks))) - 1

\* C8: CheckSubTask is idempotent: a second call with the same valid indices on
\* the same handle leaves the document as the first call left it.
C8_CheckSubTaskIdempotent ==
    [][(/\ lastOp.op = "CheckSubTask"
        /\ lastOp'.op = "CheckSubTask"
        /\ lastOp'.task = lastOp.task
        /\ lastOp'.sub = lastOp.sub
        /\ nOps' = nOps + 1
        /\ ~lastErr
        /\ ~lastErr'
        /\ ~BadTask(handle, lastOp.task)
        /\ ~BadSubTask(handle, lastOp.task, lastOp.sub))
       => (handle'.Content = handle.Content /\ disk' = disk)]_vars

\* C9: after N successful AddFailure and M successful AddReplanMarker calls, in
\* any order, on a task parsed without glyphs, re-parsing the document gives
\* failure count N and replan count M for the task, and so do the counters of
\* the handle.
C9_GlyphCounts ==
    (~handle.nil /\ onlyAdds) =>
        \A t \in 1..Len(handle.Tasks) :
            adds[t].clean =>
                LET re == ParseSprintContent(disk).Tasks
                IN  /\ Len(re) = Len(handle.Tasks)
                    /\ re[t].FailureCount = adds[t].f
                    /\ re[t].ReplanCount = adds[t].r
                    /\ handle.Tasks[t].FailureCount = adds[t].f
                    /\ handle.Tasks[t].ReplanCount = adds[t].r

\* C9 witness: a replan glyph was added between failure glyphs on a task that
\* had none.
C9_Witness ==
    /\ ~handle.nil
    /\ onlyAdds
    /\ \E t \in 1..Len(handle.Tasks) :
          /\ adds[t].clean
          /\ adds[t].f >= 1
          /\ adds[t].r >= 1
          /\ lastOp.op = "AddFailure"
          /\ lastOp.task = t - 1

\* C10: ClearFailures on a task line with F failure and R replan glyphs yields
\* a document whose re-parse gives failure count 0 and replan count R for the
\* task, with the same normalized text.
C10_ClearFailuresKeepsReplans ==
    [][(/\ lastOp'.op = "ClearFailures"
        /\ nOps' = nOps + 1
        /\ ~lastErr'
        /\ ~BadTask(handle, lastOp'.task))
       => LET t      == lastOp'.task + 1
              before == ParseSprintContent(handle.Content).Tasks
              after  == ParseSprintContent(disk').Tasks
          IN  /\ Len(after) = Len(before)
              /\ after[t].FailureCount = 0
              /\ after[t].ReplanCount = before[t].ReplanCount
              /\ NormalizeTaskText(after[t].Text) = NormalizeTaskText(before[t].Text)]_vars

(***************************************************************************)
(* Orphaned tasks (internal/workflow/interrupt.go) and progress counts     *)
(***************************************************************************)

RECURSIVE AllCheckedFrom(_, _)
AllCheckedFrom(subs, j) ==
    IF j > Len(subs) THEN TRUE
    ELSE IF ~subs[j].Checked THEN FALSE
    ELSE AllCheckedFrom(subs, j + 1)

AllSubTasksComplete(s, t) ==
    IF BadTask(s, t) THEN FALSE
    ELSE IF ~AllCheckedFrom(s.Tasks[t + 1].SubTasks, 1) THEN FALSE
    ELSE Len(s.Tasks[t + 1].SubTasks) > 0

\* autoCheckOrphanedTasks that passes over the tasks without subtasks
RECURSIVE AutoCheckFrom_SubTasksOnly(_, _, _, _, _, _)
AutoCheckFrom_SubTasksOnly(s, d, i, fixed, clean, oks) ==
    IF i > Len(s.Tasks) THEN [s |-> s, disk |-> d, fixed |-> fixed, clean |-> clean]
    ELSE IF s.Tasks[i].Checked
    THEN AutoCheckFrom_SubTasksOnly(s, d, i + 1, fixed, clean, oks)
    ELSE IF AllSubTasksComplete(s, s.Tasks[i].Index)
    THEN LET r == CheckTask(s, s.Tasks[i].Index)
         IN  IF r.err
             THEN AutoCheckFrom_SubTasksOnly(r.s, d, i + 1, fixed, clean, oks)
             ELSE IF r.write /\ ~oks[i]
             THEN AutoCheckFrom_SubTasksOnly(r.s, d, i + 1, fixed, FALSE, oks)
             ELSE AutoCheckFrom_SubTasksOnly(r.s, IF r.write THEN r.s.Content ELSE d,
                                             i + 1, fixed + 1, clean, oks)
    ELSE AutoCheckFrom_SubTasksOnly(s, d, i + 1, fixed, clean, oks)

\* the loop of autoCheckOrphanedTasks from task i on: s the handle, d the file,
\* fixed the count so far, clean whether every os.WriteFile so far succeeded,
\* oks[i] the outcome of the write for task i
RECURSIVE AutoCheckFrom(_, _, _, _, _, _)
AutoCheckFrom(s, d, i, fixed, clean, oks) ==
    IF i > Len(s.Tasks) THEN [s |-> s, disk |-> d, fixed |-> fixed, clean |-> clean]
    ELSE IF s.Tasks[i].Checked
    THEN AutoCheckFrom(s, d, i + 1, fixed, clean, oks)
    ELSE IF Len(s.Tasks[i].SubTasks) = 0 \/ AllSubTasksComplete(s, s.Tasks[i].Index)
    THEN LET r == CheckTask(s, s.Tasks[i].Index)
         IN  IF r.err
             THEN AutoCheckFrom(r.s, d, i + 1, fixed, clean, oks)
             ELSE IF r.write /\ ~oks[i]
             THEN AutoCheckFrom(r.s, d, i + 1, fixed, FALSE, oks)
             ELSE AutoCheckFrom(r.s, IF r.write THEN r.s.Content ELSE d,
                                i + 1, fixed + 1, clean, oks)
    ELSE AutoCheckFrom(s, d, i + 1, fixed, clean, oks)

autoCheckOrphanedTasks(s, d, oks) == AutoCheckFrom(s, d, 1, 0, TRUE, oks)

RECURSIVE ProgressFrom(_, _, _, _)
ProgressFrom(tasks, i, completed, total) ==
    IF i > Len(tasks) THEN [completed |-> completed, total |-> total]
    ELSE ProgressFrom(tasks, i + 1,
                      IF tasks[i].Checked THEN completed + 1 ELSE completed, total + 1)

GetProgress(s) == ProgressFrom(s.Tasks, 1, 0, 0)

\* GetOverallProgress counting one unit per task, whatever its subtasks
RECURSIVE OverallProgressFrom_PerTask(_, _, _, _)
OverallProgressFrom_PerTask(tasks, i, completed, total) ==
    IF i > Len(tasks) THEN [completed |-> completed, total |-> total]
    ELSE OverallProgressFrom_PerTask(tasks, i + 1,
                             IF tasks[i].Checked THEN completed + 1 ELSE completed, total + 1)

RECURSIVE OverallProgressFrom(_, _, _, _)
OverallProgressFrom(tasks, i, completed, total) ==
    IF i > Len(tasks) THEN [completed |-> completed, total |-> total]
    ELSE IF Len(tasks[i].SubTasks) = 0
    THEN OverallProgressFrom(tasks, i + 1,
                             IF tasks[i].Checked THEN completed + 1 ELSE completed, total + 1)
    ELSE LET p == ProgressFrom(tasks[i].SubTasks, 1, 0, 0)
         IN  OverallProgressFrom(tasks, i + 1, completed + p.completed, total + p.total)

GetOverallProgress(s) == OverallProgressFrom(s.Tasks, 1, 0, 0)

(***************************************************************************)
(* Specification SpecOrphan: a document is parsed, queried, and the orphan *)
(* pass of NextWithOptions runs on the fresh handle                        *)
(***************************************************************************)

\* longer documents: a checked task without subtasks before a task with two
\* subtasks, and an orphaned task before an open one
ProgressDocs ==
    { Join(<<TaskDone, TaskOpen, SubDone, SubOpen>>),
      Join(<<TaskOpen, SubDone, SubDone, TaskOpen, SubOpen>>),
      Join(<<SubOpen, TaskOpen, Heading, SubDone, TaskDone>>) }

InitOrphan ==
    /\ disk \in SprintDocs \cup ProgressDocs
    /\ handle = NilSprint
    /\ lastOp = NoOp
    /\ lastErr = FALSE
    /\ adds = <<>>
    /\ onlyAdds = FALSE
    /\ nOps = 0
    /\ goal = FALSE
    /\ interview = Absent
    /\ overview = FALSE
    /\ decisions = FALSE
    /\ sprintsDir = FALSE
    /\ sprints = [n \in SprintNames |-> Absent]
    /\ status = NoStatus
    /\ current = NoCurrent
    /\ ExitIdle
    /\ CallIdle
    /\ AutoIdle

\* the handle is as ParseSprint returned it and no call has been made on it
JustParsed == ~handle.nil /\ lastOp.op = "ParseSprint" /\ out = NoOut

DoAllSubTasksComplete ==
    /\ JustParsed
    /\ \E t \in TaskIndices :
          out' = [NoOut EXCEPT !.op = "AllSubTasksComplete", !.n = t,
                               !.b = AllSubTasksComplete(handle, t)]
    /\ UNCHANGED <<oldDisk, newDisk, execResult, fsVars, exitVars, sprintVars, autoVars>>

\* sprint.IsComplete() on the handle
DoIsCompleteCall ==
    /\ JustParsed
    /\ out' = [NoOut EXCEPT !.op = "IsComplete", !.b = IsComplete(handle)]
    /\ UNCHANGED <<oldDisk, newDisk, execResult, fsVars, exitVars, sprintVars, autoVars>>

DoGetProgress ==
    /\ JustParsed
    /\ out' = [NoOut EXCEPT !.op = "GetProgress",
                            !.n = GetProgress(handle).completed,
                            !.m = GetProgress(handle).total]
    /\ UNCHANGED <<oldDisk, newDisk, execResult, fsVars, exitVars, sprintVars, autoVars>>

DoGetOverallProgress ==
    /\ JustParsed
    /\ out' = [NoOut EXCEPT !.op = "GetOverallProgress",
                            !.n = GetOverallProgress(handle).completed,
                            !.m = GetOverallProgress(handle).total]
    /\ UNCHANGED <<oldDisk, newDisk, execResult, fsVars, exitVars, sprintVars, autoVars>>

\* NextWithOptions runs autoCheckOrphanedTasks on the handle it has just parsed;
\* out.b tells whether every write of the pass succeeded
DoAutoCheckOrphanedTasks ==
    /\ JustParsed
    /\ \E oks \in [1..Len(handle.Tasks) -> WriteOutcomes] :
          LET r == autoCheckOrphanedTasks(handle, disk, oks)
          IN  /\ handle' = r.s
              /\ disk' = r.disk
              /\ out' = [NoOut EXCEPT !.op = "autoCheckOrphanedTasks",
                                      !.n = r.fixed, !.b = r.clean]
    /\ lastOp' = [NoOp EXCEPT !.op = "autoCheckOrphanedTasks"]
    /\ UNCHANGED <<lastErr, adds, onlyAdds, nOps, oldDisk, newDisk, execResult, fsVars, exitVars, autoVars>>

NextOrphan ==
    \/ DoParseSprint
    \/ DoAllSubTasksComplete
    \/ DoIsCompleteCall
    \/ DoGetProgress
    \/ DoGetOverallProgress
    \/ DoAutoCheckOrphanedTasks

SpecOrphan == InitOrphan /\ [][NextOrphan]_vars

\* task t (from 1) of the handle is unchecked and has subtasks, all checked
OrphanWithSubTasks(s, t) ==
    /\ ~s.Tasks[t].Checked
    /\ Len(s.Tasks[t].SubTasks) > 0
    /\ \A j \in 1..Len(s.Tasks[t].SubTasks) : s.Tasks[t].SubTasks[j].Checked

\* the tasks the orphan pass is to check
Orphans(s) ==
    {t \in 1..Len(s.Tasks) :
        /\ ~s.Tasks[t].Checked
        /\ \A j \in 1..Len(s.Tasks[t].SubTasks) : s.Tasks[t].SubTasks[j].Checked}

Units(s) ==
    {<<t, 0>> : t \in {u \in 1..Len(s.Tasks) : Len(s.Tasks[u].SubTasks) = 0}}
    \cup UNION { {<<t, j>> : j \in 1..Len(s.Tasks[t].SubTasks)} : t \in 1..Len(s.Tasks) }

UnitChecked(s, u) ==
    IF u[2] = 0 THEN s.Tasks[u[1]].Checked ELSE s.Tasks[u[1]].SubTasks[u[2]].Checked

\* C12: GetOverallProgress counts one unit per task without subtasks (completed
\* iff the task is checked) and one unit per subtask of the other tasks
\* (completed iff the subtask is checked), so completed <= total; GetProgress
\* counts the top-level tasks only.
C12_OverallProgressUnits ==
    /\ out.op = "GetOverallProgress" =>
          /\ out.m = Cardinality(Units(handle))
          /\ out.n = Cardinality({u \in Units(handle) : UnitChecked(handle, u)})
          /\ out.n <= out.m
    /\ out.op = "GetProgress" =>
          /\ out.m = Len(handle.Tasks)
          /\ out.n = Cardinality({t \in 1..Len(handle.Tasks) : handle.Tasks[t].Checked})

\* C12 witness: a checked task without subtasks and a task with two subtasks,
\* one of them checked, give 2 of 3.
C12_Witness ==
    /\ out.op = "GetOverallProgress"
    /\ out.n = 2
    /\ out.m = 3
    /\ Len(handle.Tasks) = 2
    /\ handle.Tasks[1].Checked
    /\ Len(handle.Tasks[1].SubTasks) = 0
    /\ Len(handle.Tasks[2].SubTasks) = 2
    /\ Cardinality({j \in 1..2 : handle.Tasks[2].SubTasks[j].Checked}) = 1

(***************************************************************************)
(* MergeFailureCounts (internal/workflow/sprint.go)                        *)
(***************************************************************************)

\* ParseSprint(path) on a file entry: os.ReadFile fails on a missing or
\* unreadable file
ParseSprint(e) ==
    IF e.kind = "file" /\ e.readable
    THEN [err |-> FALSE, sprint |-> ParseSprintContent(e.data)]
    ELSE [err |-> TRUE, sprint |-> NilSprint]

\* MergeFailureCounts copying the count of the first old task of each text
RECURSIVE FailureCountsFrom_FirstWins(_, _, _)
FailureCountsFrom_FirstWins(tasks, i, counts) ==
    IF i > Len(tasks) THEN counts
    ELSE IF tasks[i].FailureCount > 0
    THEN LET normalized == NormalizeTaskText(tasks[i].Text)
         IN  FailureCountsFrom_FirstWins(tasks, i + 1,
                 [x \in DOMAIN counts \cup {normalized} |->
                     IF x \in DOMAIN counts THEN counts[x] ELSE tasks[i].FailureCount])
    ELSE FailureCountsFrom_FirstWins(tasks, i + 1, counts)

\* failureCounts: normalized task text -> failure count, a later task of the
\* same text replacing an earlier one
RECURSIVE FailureCountsFrom(_, _, _)
FailureCountsFrom(tasks, i, counts) ==
    IF i > Len(tasks) THEN counts
    ELSE IF tasks[i].FailureCount > 0
    THEN LET normalized == NormalizeTaskText(tasks[i].Text)
         IN  FailureCountsFrom(tasks, i + 1,
                 [x \in DOMAIN counts \cup {normalized} |->
                     IF x = normalized THEN tasks[i].FailureCount ELSE counts[x]])
    ELSE FailureCountsFrom(tasks, i + 1, counts)

\* the inner loop of MergeFailureCounts for task i (from 1): AddFailure count
\* times, stopping at the first error; the failAt-th write fails (0: none)
RECURSIVE AddFailureTimes(_, _, _, _, _, _, _)
AddFailureTimes(s, d, i, j, count, failAt, failed) ==
    IF j >= count THEN [s |-> s, disk |-> d, failed |-> failed]
    ELSE LET r == AddFailure(s, i - 1)
         IN  IF r.err THEN [s |-> r.s, disk |-> d, failed |-> failed]
             ELSE IF j + 1 = failAt THEN [s |-> r.s, disk |-> d, failed |-> failed + 1]
             ELSE AddFailureTimes(r.s, r.s.Content, i, j + 1, count, failAt, failed)

\* the outer loop of MergeFailureCounts over the tasks of the new sprint
RECURSIVE MergeFrom(_, _, _, _, _, _)
MergeFrom(s, d, i, counts, fa, failed) ==
    IF i > Len(s.Tasks) THEN [s |-> s, disk |-> d, failed |-> failed]
    ELSE LET normalized == NormalizeTaskText(s.Tasks[i].Text)
         IN  IF normalized \in DOMAIN counts /\ counts[normalized] > 0
             THEN LET r == AddFailureTimes(s, d, i, 0, counts[normalized], fa[i], failed)
                  IN  MergeFrom(r.s, r.disk, i + 1, counts, fa, r.failed)
             ELSE MergeFrom(s, d, i + 1, counts, fa, failed)

\* MergeFailureCounts(oldSprintPath, newSprintPath): the error returned, the
\* new sprint file afterwards and the number of writes that failed
MergeFailureCounts(old, new, fa) ==
    LET o      == ParseSprint(old)
        counts == FailureCountsFrom(o.sprint.Tasks, 1, <<>>)
        n      == ParseSprint(new)
    IN  IF o.err THEN [err |-> TRUE, new |-> new, failed |-> 0]
        ELSE IF DOMAIN counts = {} THEN [err |-> FALSE, new |-> new, failed |-> 0]
        ELSE IF n.err THEN [err |-> TRUE, new |-> new, failed |-> 0]
        ELSE LET r == MergeFrom(n.sprint, new.data, 1, counts, fa, 0)
             IN  [err |-> FALSE, new |-> File(r.disk), failed |-> r.failed]

(***************************************************************************)
(* Specification SpecMerge: one merge of an old sprint into a new one      *)
(***************************************************************************)

\* largest number of lines of the old and of the new sprint of a merge
MaxOldLines == 2

MaxNewLines == 2

\* largest failure count of an old task, which bounds the writes per task
MaxFailures == 2

TaskFailedOnce == <<"-", " ", "[", " ", "]", " ", FailGlyph, " ", "a">>

TaskOther == <<"-", " ", "[", " ", "]", " ", "c">>

OldLines == {TaskFailedOnce, TaskGlyphs, TaskOpen}

NewLines == {TaskOpen, TaskOther, TaskGlyphs, SubOpen}

OldDocs ==
    {<<>>} \cup UNION { {Join(ls) : ls \in [1..n -> OldLines]} : n \in 1..MaxOldLines }

NewDocs ==
    {<<>>} \cup UNION { {Join(ls) : ls \in [1..n -> NewLines]} : n \in 1..MaxNewLines }

InitMerge ==
    /\ oldDisk \in {Absent} \cup {File(d) : d \in OldDocs}
    /\ newDisk \in {Absent} \cup {File(d) : d \in NewDocs}
    /\ out = NoOut
    /\ execResult = NoResult
    /\ goal = FALSE
    /\ interview = Absent
    /\ overview = FALSE
    /\ decisions = FALSE
    /\ sprintsDir = FALSE
    /\ sprints = [n \in SprintNames |-> Absent]
    /\ status = NoStatus
    /\ current = NoCurrent
    /\ ExitIdle
    /\ SprintIdle
    /\ AutoIdle

\* the replan step merges the failure counts of the old sprint into the new
\* one; out.b is the error returned, out.n the number of failed writes
DoMergeFailureCounts ==
    /\ out = NoOut
    /\ LET o      == ParseSprint(oldDisk)
           n      == ParseSprint(newDisk)
           counts == FailureCountsFrom(o.sprint.Tasks, 1, <<>>)
           writes == [i \in 1..Len(n.sprint.Tasks) |->
                        LET normalized == NormalizeTaskText(n.sprint.Tasks[i].Text)
                        IN  IF normalized \in DOMAIN counts THEN counts[normalized] ELSE 0]
       IN  \E fa \in [1..Len(n.sprint.Tasks) -> 0..MaxFailures] :
              /\ \A i \in 1..Len(n.sprint.Tasks) : fa[i] <= writes[i]
              /\ LET r == MergeFailureCounts(oldDisk, newDisk, fa)
                 IN  /\ newDisk' = r.new
                     /\ out' = [NoOut EXCEPT !.op = "MergeFailureCounts",
                                             !.b = r.err, !.n = r.failed]
    /\ UNCHANGED <<oldDisk, execResult, fsVars, exitVars, sprintVars, autoVars>>

NextMerge == DoMergeFailureCounts

SpecMerge == InitMerge /\ [][NextMerge]_vars

\* the old tasks with failure glyphs whose normalized text is that of t
Matching(oldT, t) ==
    {u \in 1..Len(oldT) :
        /\ oldT[u].FailureCount > 0
        /\ NormalizeTaskText(oldT[u].Text) = NormalizeTaskText(t.Text)}

GlyphFree(t) ==
    /\ t.FailureCount = 0
    /\ t.ReplanCount = 0
    /\ Count(t.Text, FailGlyph) = 0
    /\ Count(t.Text, ReplanGlyph) = 0

\* a merge of two readable sprints none of whose writes fails
MergeStep ==
    /\ out.op = "none"
    /\ out'.op = "MergeFailureCounts"
    /\ out'.n = 0
    /\ ~ParseSprint(oldDisk).err
    /\ ~ParseSprint(newDisk).err

\* what the merge leaves alone: the tasks without a match and every other line
MergeLeavesRest ==
    LET oldT   == ParseSprint(oldDisk).sprint.Tasks
        before == ParseSprint(newDisk).sprint.Tasks
        lines  == Split(newDisk.data)
        after  == Split(newDisk'.data)
    IN  /\ ~out'.b
        /\ Len(after) = Len(lines)
        /\ \A k \in 1..Len(lines) :
              (\A t \in 1..Len(before) :
                  before[t].LineNum = k => Matching(oldT, before[t]) = {})
                 => after[k] = lines[k]

Greatest(S) == CHOOSE x \in S : \A y \in S : y <= x

ExternalRewrite ==
    /\ ~handle.nil
    /\ \E d \in MutationDocs :
          /\ d /= disk
          /\ disk' = d
    /\ lastOp' = [NoOp EXCEPT !.op = "ExternalRewrite"]
    /\ UNCHANGED <<handle, lastErr, adds, onlyAdds, nOps, fsVars, exitVars, callVars, autoVars>>

NextStale ==
    \/ DoParseSprint
    \/ ExternalRewrite
    \/ DoCheckTask
    \/ DoCheckSubTask
    \/ DoUncheckSubTask

SpecStale == InitSprint /\ [][NextStale]_vars

\* the line of the file that holds the task or subtask a call addresses, 0 when
\* the file holds no such task or subtask
AddressedLine(text, op, t, j) ==
    LET ts == ParseSprintContent(text).Tasks
    IN  IF t < 0 \/ t >= Len(ts) THEN 0
        ELSE IF op = "CheckTask" THEN ts[t + 1].LineNum
        ELSE IF j < 0 \/ j >= Len(ts[t + 1].SubTasks) THEN 0
        ELSE ts[t + 1].SubTasks[j + 1].LineNum

\* C14: after the sprint file was rewritten behind a parsed handle, CheckTask,
\* CheckSubTask and UncheckSubTask through that handle either leave the file as
\* it is or return an error, and never change a line of the file other than
\* the line of the task or subtask they address.
C14_StaleHandleFailsSafely ==
    [][(/\ nOps' = nOps + 1
        /\ lastOp'.op \in {"CheckTask", "CheckSubTask", "UncheckSubTask"}
        /\ handle.Content /= disk)
       => /\ disk' = disk \/ lastErr'
          /\ Len(Split(disk')) = Len(Split(disk))
          /\ \A k \in 1..Len(Split(disk)) :
                Split(disk')[k] /= Split(disk)[k] =>
                   k = AddressedLine(disk, lastOp'.op, lastOp'.task, lastOp'.sub)]_vars

\* ---------------------------------------------------------------------------
\* Failed writes and invalid indices (SpecSprint)
\* ---------------------------------------------------------------------------

Mutators ==
    {"CheckTask", "CheckSubTask", "UncheckSubTask", "AddFailure", "AddReplanMarker",
     "ClearFailures"}

\* the failure and replan counters of every task, as the handle s holds them
Counters(s) ==
    [i \in 1..Len(s.Tasks) |->
        [f |-> s.Tasks[i].FailureCount, r |-> s.Tasks[i].ReplanCount]]

\* the handle s holds exactly what the file d holds
InSync(s, d) ==
    /\ s.Content = d
    /\ Counters(s) = Counters(ParseSprintContent(d))

\* C15: when a mutator called on a handle in step with the file returns an error
\* (its write failed, or it refused the call), the handle's Content and counters
\* still equal what is on disk
C15_FailedWriteKeepsHandle ==
    [][(/\ nOps' = nOps + 1
        /\ lastOp'.op \in Mutators
        /\ InSync(handle, disk)
        /\ lastErr')
       => InSync(handle', disk')]_vars

\* the call recorded in op was made on handle s with an index outside [0, len)
InvalidIndex(s, op) ==
    \/ BadTask(s, op.task)
    \/ /\ op.op \in {"CheckSubTask", "UncheckSubTask"}
       /\ BadSubTask(s, op.task, op.sub)

\* C16: CheckTask, CheckSubTask, UncheckSubTask, AddFailure, AddReplanMarker and
\* ClearFailures called with a task or subtask index outside [0, len) return an
\* error and leave Content, the in-memory tasks and the file unchanged
C16_InvalidIndexRejected ==
    [][(/\ nOps' = nOps + 1
        /\ lastOp'.op \in Mutators
        /\ InvalidIndex(handle, lastOp'))
       => /\ lastErr'
          /\ handle'.Content = handle.Content
          /\ handle'.Tasks = handle.Tasks
          /\ disk' = disk]_vars

\* a subtask mutator was called with subtask index len on a task that has
\* subtasks, and was refused
C16_Witness ==
    /\ lastOp.op \in {"CheckSubTask", "UncheckSubTask"}
    /\ ~BadTask(handle, lastOp.task)
    /\ Len(handle.Tasks[lastOp.task + 1].SubTasks) > 0
    /\ lastOp.sub = Len(handle.Tasks[lastOp.task + 1].SubTasks)
    /\ lastErr
    /\ handle.Content = disk

\* ---------------------------------------------------------------------------
\* Interview completion markers (SpecInterview)
\* ---------------------------------------------------------------------------

\* most lines of an interview text
MaxInterviewLines == 2

\* the completion box as FormatInterview writes it
IvBoxUnchecked == <<"-", " ", "[", " ", "]", " ", AllAnswered, " ", "(", "c", ")">>

IvBoxLower == <<"-", " ", "[", "x", "]", " ", AllAnswered>>

\* a checked box inside a longer line
IvBoxUpper == <<">", " ", "-", " ", "[", "X", "]", " ", AllAnswered, " ", "(", "c", ")">>

IvLegacy == <<StatusComplete>>

\* the legacy marker inside a longer line
IvLegacyInLine == <<"*", "*", StatusComplete, "D">>

\* lines that look like a marker and are none
IvLegacyLower == <<"Status: complete">>

IvBoxLowerPhrase == <<"-", " ", "[", "x", "]", " ", "all questions answered">>

IvBoxNoSpace == <<"-", "[", "x", "]", " ", AllAnswered>>

IvBoxStar == <<"*", " ", "[", "x", "]", " ", AllAnswered>>

IvBoxWide == <<"-", " ", "[", "x", "]", " ", " ", AllAnswered>>

\* a checked box of another item
IvBoxOther == <<"-", " ", "[", "x", "]", " ", "a">>

IvHeading == <<"#", " ", "i">>

InterviewLines ==
    {IvBoxUnchecked, IvBoxLower, IvBoxUpper, IvLegacy, IvLegacyInLine, IvLegacyLower,
     IvBoxLowerPhrase, IvBoxNoSpace, IvBoxStar, IvBoxWide, IvBoxOther, IvHeading}

InterviewDocs ==
    {Join(ls) : ls \in UNION {[1..n -> InterviewLines] : n \in 0..MaxInterviewLines}}

InitInterview ==
    /\ interview \in {File(t) : t \in InterviewDocs}
    /\ goal = FALSE
    /\ overview = FALSE
    /\ decisions = FALSE
    /\ sprintsDir = FALSE
    /\ sprints = [n \in SprintNames |-> Absent]
    /\ status = NoStatus
    /\ current = NoCurrent
    /\ ExitIdle
    /\ SprintIdle
    /\ CallIdle
    /\ AutoIdle

\* logging.ParseInterviewStatus(content) on the text of the interview file
DoParseInterviewStatus ==
    /\ out = NoOut
    /\ out' = [NoOut EXCEPT !.op = "ParseInterviewStatus",
                            !.b = ParseInterviewStatus(interview.data)]
    /\ UNCHANGED <<oldDisk, newDisk, execResult, fsVars, exitVars, sprintVars, autoVars>>

NextInterview == DoParseInterviewStatus

SpecInterview == InitInterview /\ [][NextInterview]_vars

\* lines holding the checked completion box, the check mark in either case
CheckedBoxLines == {IvBoxLower, IvBoxUpper}

\* lines holding the legacy marker
LegacyLines == {IvLegacy, IvLegacyInLine}

HasLine(text, S) == \E k \in 1..Len(Split(text)) : Split(text)[k] \in S

\* C17: ParseInterviewStatus reports the interview complete if and only if its
\* text holds a checked completion box "- [x] All questions answered" (x in either
\* case) or the legacy marker "Status: COMPLETE"; an unchecked completion box
\* alone is not complete
C17_InterviewCompleteIff ==
    out.op = "ParseInterviewStatus" =>
        /\ out.b <=> \/ HasLine(interview.data, CheckedBoxLines)
                     \/ HasLine(interview.data, LegacyLines)
        /\ (/\ HasLine(interview.data, {IvBoxUnchecked})
            /\ ~HasLine(interview.data, CheckedBoxLines \cup LegacyLines)) => ~out.b

\* an interview whose box is unchecked and which carries the legacy marker was
\* reported complete
C17_Witness ==
    /\ out.op = "ParseInterviewStatus"
    /\ HasLine(interview.data, {IvBoxUnchecked})
    /\ HasLine(interview.data, LegacyLines)
    /\ ~HasLine(interview.data, CheckedBoxLines)
    /\ out.b

\* ---------------------------------------------------------------------------
\* agate auto: AutoRunner.Run (SpecAuto)
\* ---------------------------------------------------------------------------

maxConsecutiveErrors == 3

\* most next calls of one run
MaxSteps == 5

\* most lines typed on stdin during one run
MaxStdinLines == 2

\* exit codes a next step ends with: the four codes of agate next, and 130
ExitCodes == {ExitDone, ExitMoreWork, ExitError, ExitHumanNeeded, 130}

\* what Exec returns for a next call: an exit code, or -1 with an error when
\* the subprocess could not be run
ExecResults ==
    {[code |-> c, err |-> FALSE] : c \in ExitCodes} \cup {[code |-> -1, err |-> TRUE]}

\* lines a user types: two suggestions, one of them padded, and a blank line
StdinLines == {<<"a">>, <<" ", "b", " ">>, <<" ">>}

NextCall == [cmd |-> "next", text |-> <<>>]

SuggestCall(text) == [cmd |-> "suggest", text |-> text]

\* the switch of Run retrying every error code
RunSwitch_NeverStops(exitCode, err, ce) ==
    IF err THEN [return |-> TRUE, code |-> 2, ce |-> ce]
    ELSE IF exitCode = 0 THEN [return |-> TRUE, code |-> 0, ce |-> ce]
    ELSE IF exitCode = 1 THEN [return |-> FALSE, code |-> -1, ce |-> 0]
    ELSE IF exitCode = 255 THEN [return |-> TRUE, code |-> 255, ce |-> ce]
    ELSE [return |-> FALSE, code |-> -1, ce |-> ce + 1]

\* the switch of Run with 255 treated as more work
RunSwitch_255Loops(exitCode, err, ce) ==
    IF err THEN [return |-> TRUE, code |-> 2, ce |-> ce]
    ELSE IF exitCode = 0 THEN [return |-> TRUE, code |-> 0, ce |-> ce]
    ELSE IF exitCode = 1 \/ exitCode = 255 THEN [return |-> FALSE, code |-> -1, ce |-> 0]
    ELSE IF ce + 1 >= maxConsecutiveErrors
         THEN [return |-> TRUE, code |-> exitCode, ce |-> ce + 1]
         ELSE [return |-> FALSE, code |-> -1, ce |-> ce + 1]

\* the switch of Run with exit code 1 leaving the error counter alone
RunSwitch_NoReset(exitCode, err, ce) ==
    IF err THEN [return |-> TRUE, code |-> 2, ce |-> ce]
    ELSE IF exitCode = 0 THEN [return |-> TRUE, code |-> 0, ce |-> ce]
    ELSE IF exitCode = 1 THEN [return |-> FALSE, code |-> -1, ce |-> ce]
    ELSE IF exitCode = 255 THEN [return |-> TRUE, code |-> 255, ce |-> ce]
    ELSE IF ce + 1 >= maxConsecutiveErrors
         THEN [return |-> TRUE, code |-> exitCode, ce |-> ce + 1]
         ELSE [return |-> FALSE, code |-> -1, ce |-> ce + 1]

\* the switch of Run returning Exec's own code when the subprocess could not
\* be run
RunSwitch_ExecCode(exitCode, err, ce) ==
    IF err THEN [return |-> TRUE, code |-> exitCode, ce |-> ce]
    ELSE IF exitCode = 0 THEN [return |-> TRUE, code |-> 0, ce |-> ce]
    ELSE IF exitCode = 1 THEN [return |-> FALSE, code |-> -1, ce |-> 0]
    ELSE IF exitCode = 255 THEN [return |-> TRUE, code |-> 255, ce |-> ce]
    ELSE IF ce + 1 >= maxConsecutiveErrors
         THEN [return |-> TRUE, code |-> exitCode, ce |-> ce + 1]
         ELSE [return |-> FALSE, code |-> -1, ce |-> ce + 1]

\* Run, from the return of Exec to the end of the iteration: whether Run
\* returns, the code it returns, and consecutiveErrors afterwards
RunSwitch(exitCode, err, ce) ==
    IF err THEN [return |-> TRUE, code |-> 2, ce |-> ce]
    ELSE IF exitCode = 0 THEN [return |-> TRUE, code |-> 0, ce |-> ce]
    ELSE IF exitCode = 1 THEN [return |-> FALSE, code |-> -1, ce |-> 0]
    ELSE IF exitCode = 255 THEN [return |-> TRUE, code |-> 255, ce |-> ce]
    ELSE IF ce + 1 >= maxConsecutiveErrors
         THEN [return |-> TRUE, code |-> exitCode, ce |-> ce + 1]
         ELSE [return |-> FALSE, code |-> -1, ce |-> ce + 1]

\* agate auto has been started with Run(""): the reader goroutine and the loop
\* are about to run, the user will type the lines of stdin
InitAuto ==
    /\ pc = "drain"
    /\ step = 0
    /\ consecutiveErrors = 0
    /\ ret = -1
    /\ calls = <<>>
    /\ codes = <<>>
    /\ stdin \in UNION {[1..n -> StdinLines] : n \in 0..MaxStdinLines}
    /\ inputCh = <<>>
    /\ goal = FALSE
    /\ interview = Absent
    /\ overview = FALSE
    /\ decisions = FALSE
    /\ sprintsDir = FALSE
    /\ sprints = [n \in SprintNames |-> Absent]
    /\ status = NoStatus
    /\ current = NoCurrent
    /\ ExitIdle
    /\ SprintIdle
    /\ CallIdle

\* the reader goroutine: scanner.Scan() returns a line, which is sent on inputCh
ReadStdin ==
    /\ stdin /= <<>>
    /\ inputCh' = Append(inputCh, Head(stdin))
    /\ stdin' = Tail(stdin)
    /\ UNCHANGED <<pc, step, consecutiveErrors, ret, calls, codes>>
    /\ UNCHANGED <<fsVars, exitVars, sprintVars, callVars>>

\* drainSuggestions: a line is received from inputCh and, unless blank, sent
\* with sendSuggest
DrainOne ==
    /\ pc = "drain"
    /\ inputCh /= <<>>
    /\ inputCh' = Tail(inputCh)
    /\ LET line == TrimSpace(Head(inputCh))
       IN  calls' = IF line /= <<>> THEN Append(calls, SuggestCall(line)) ELSE calls
    /\ UNCHANGED <<pc, step, consecutiveErrors, ret, codes, stdin>>
    /\ UNCHANGED <<fsVars, exitVars, sprintVars, callVars>>

\* drainSuggestions finds inputCh empty (or closed) and returns
DrainDone ==
    /\ pc = "drain"
    /\ inputCh = <<>>
    /\ pc' = "step"
    /\ UNCHANGED <<step, consecutiveErrors, ret, calls, codes, stdin, inputCh>>
    /\ UNCHANGED <<fsVars, exitVars, sprintVars, callVars>>

\* Run counts the step, prints its banner and calls Exec with "next"
StartNext ==
    /\ pc = "step"
    /\ step < MaxSteps
    /\ step' = step + 1
    /\ calls' = Append(calls, NextCall)
    /\ pc' = "next"
    /\ UNCHANGED <<consecutiveErrors, ret, codes, stdin, inputCh>>
    /\ UNCHANGED <<fsVars, exitVars, sprintVars, callVars>>

\* Exec returns from the next call and Run acts on the exit code
NextReturns ==
    /\ pc = "next"
    /\ \E res \in ExecResults :
          LET sw == RunSwitch(res.code, res.err, consecutiveErrors)
          IN  /\ codes' = Append(codes, res)
              /\ consecutiveErrors' = sw.ce
              /\ pc' = IF sw.return THEN "done" ELSE "drain"
              /\ ret' = IF sw.return THEN sw.code ELSE ret
    /\ UNCHANGED <<step, calls, stdin, inputCh>>
    /\ UNCHANGED <<fsVars, exitVars, sprintVars, callVars>>

NextAuto ==
    \/ ReadStdin
    \/ DrainOne
    \/ DrainDone
    \/ StartNext
    \/ NextReturns

SpecAuto == InitAuto /\ [][NextAuto]_vars

\* number of next calls among the calls cs
NextCount(cs) == Cardinality({i \in 1..Len(cs) : cs[i].cmd = "next"})

Last(q) == q[Len(q)]

\* Exec ran the step and it ended with exit code c
Ended(res, c) == ~res.err /\ res.code = c

\* the step ended with an exit code other than 0, 1 and 255
ErrorCode(res) == ~res.err /\ res.code \notin {0, 1, 255}

\* no step of cs ended with an error code or could not be run
NoErrorCodes(cs) == \A i \in 1..Len(cs) : ~cs[i].err /\ ~ErrorCode(cs[i])

\* position of the first 0 or 255 in cs
FirstStop(cs) == Least({i \in 1..Len(cs) : Ended(cs[i], 0) \/ Ended(cs[i], 255)})

\* one step of the run, as C18 describes it
C18_Step ==
    \* next calls run one after another: a next call is issued only when every
    \* earlier one has returned
    /\ NextCount(calls') > NextCount(calls) =>
          (NextCount(calls) = Len(codes) /\ NextCount(calls') = NextCount(calls) + 1)
    /\ codes' /= codes =>
          /\ Ended(Last(codes'), 0) => (pc' = "done" /\ ret' = 0)
          /\ Ended(Last(codes'), 255) => (pc' = "done" /\ ret' = 255)
          /\ Ended(Last(codes'), 1) => (pc' = "drain" /\ ret' = -1)
    \* from the head of the loop Run goes on only by issuing a next call
    /\ pc \in {"drain", "step"} =>
          \/ pc' \in {"drain", "step"} /\ NextCount(calls') = NextCount(calls) /\ ret' = -1
          \/ pc' = "next" /\ NextCount(calls') = NextCount(calls) + 1 /\ ret' = -1
    \* once Run has returned no call is issued
    /\ pc = "done" => (calls' = calls /\ codes' = codes /\ ret' = ret /\ pc' = "done")
    /\ (pc' = "done" /\ NoErrorCodes(codes')) =>
          NextCount(calls') = FirstStop(codes')

\* C18: Run runs next steps strictly one after another; on exit code 0 it
\* returns 0 and on 255 it returns 255, issuing no further next call; on 1 it
\* issues another next call; with no error codes the number of next calls is
\* the position of the first 0 or 255 in the sequence of exit codes
C18_SequentialUntilStop == [][C18_Step]_vars

\* Run returned 255 after two steps that ended with 1 and suggestions sent
\* in between
C18_Witness ==
    /\ pc = "done"
    /\ ret = 255
    /\ Len(codes) = 3
    /\ Ended(codes[1], 1) /\ Ended(codes[2], 1) /\ Ended(codes[3], 255)
    /\ NextCount(calls) = 3
    /\ Len(calls) > 3

\* number of error codes at the end of cs, back to the last step that ended
\* otherwise
RECURSIVE TrailingErrors(_)
TrailingErrors(cs) ==
    IF cs = <<>> \/ ~ErrorCode(Last(cs)) THEN 0
    ELSE 1 + TrailingErrors(SubSeq(cs, 1, Len(cs) - 1))

IssuesNext == NextCount(calls') = NextCount(calls) + 1

NonBlank(line) == TrimSpace(line) /= <<>>

\* the reader goroutine reads lines in input order
C22_ReadInOrder ==
    inputCh' /= inputCh /\ Len(inputCh') > Len(inputCh) =>
        (stdin /= <<>> /\ inputCh' = Append(inputCh, Head(stdin)) /\ calls' = calls)

\* a line taken from inputCh is forwarded as exactly one suggest call if it is
\* not blank and as none if it is; suggest calls are issued only so, between
\* steps
C22_ForwardedOnce ==
    /\ Len(inputCh') < Len(inputCh) =>
          /\ pc = "drain"
          /\ inputCh' = Tail(inputCh)
          /\ calls' = IF NonBlank(Head(inputCh))
                      THEN Append(calls, SuggestCall(TrimSpace(Head(inputCh))))
                      ELSE calls
    /\ (calls' /= calls /\ ~IssuesNext) =>
          (pc = "drain" /\ inputCh /= <<>> /\ inputCh' = Tail(inputCh))
    /\ pc = "next" => (calls' = calls \/ pc' /= "next")

\* when a next call is issued no line that is not blank has been read and not
\* forwarded
C22_ForwardedBeforeNext ==
    IssuesNext => \A i \in 1..Len(inputCh) : ~NonBlank(inputCh[i])

\* C22: every non-empty line read from stdin before a step starts is forwarded
\* as exactly one suggest call, in input order, before the next next call is
\* issued; suggest calls happen only between steps, never while a next call is
\* running; blank lines produce no suggest call
C22_SuggestionsForwardedBeforeStep ==
    [][C22_ReadInOrder /\ C22_ForwardedOnce /\ C22_ForwardedBeforeNext]_vars

\* the part of C22 about how lines are forwarded, without the promise that
\* they are forwarded before the next step
C22_ForwardingOnly == [][C22_ReadInOrder /\ C22_ForwardedOnce]_vars

\* ---------------------------------------------------------------------------
\* agate auto over agate next: NextWithOptions and runNext (SpecNext)
\* ---------------------------------------------------------------------------

maxReviewRetries == 3

\* most sprint files of one project
MaxSprints == 2

\* the reviewer's skill, one element
ReviewerSkill == "_reviewer"

SubReview == <<" ", " ", "-", " ", "[", " ", "]", " ", ReviewerSkill, ":", " ", "r">>

\* subTask.Skill == "_reviewer" || strings.HasSuffix(subTask.Skill, "-reviewer")
isReviewer(skill) == skill = <<ReviewerSkill>> \/ HasSuffix(skill, <<"-reviewer">>)

\* fmt.Sprintf("%02d", num) for num < 100
Fmt02(num) ==
    LET digit == <<"0", "1", "2", "3", "4", "5", "6", "7", "8", "9">>
    IN  <<digit[(num \div 10) + 1], digit[(num % 10) + 1]>>

\* the file the assessing agent is told to write: %02d-next.md
NextSprintName(num) == Fmt02(num) \o <<"-", "n", "e", "x", "t">> \o MdSuffix

FirstSprintName == <<"0", "1", "-", "a">> \o MdSuffix

\* the entries of .ai/sprints in a run
NextNames == {FirstSprintName} \cup {NextSprintName(n) : n \in 2..MaxSprints}

\* findSprintByNum: whether some sprint file of F has the number num
findSprintByNum(F, num) ==
    \E n \in DOMAIN F.sprints :
        /\ F.sprints[n].kind = "file"
        /\ HasSuffix(n, MdSuffix)
        /\ HasPrefix(n, Fmt02(num) \o <<"-">>)

\* GetCurrentTask: index of the first unchecked task, -1 for nil
RECURSIVE CurrentTaskFrom(_, _)
CurrentTaskFrom(tasks, i) ==
    IF i > Len(tasks) THEN -1
    ELSE IF ~tasks[i].Checked THEN tasks[i].Index
    ELSE CurrentTaskFrom(tasks, i + 1)

GetCurrentTask(s) == CurrentTaskFrom(s.Tasks, 1)

\* a handle and the file behind it after a mutator returned res, the write
\* succeeding
Applied(st, res) ==
    [s |-> res.s, file |-> IF res.write THEN res.s.Content ELSE st.file]

\* executeSubTask after a rejected review: the loop unchecking subtask i and
\* every later checked subtask of task t
RECURSIVE UncheckFrom(_, _, _)
UncheckFrom(st, t, i) ==
    IF i >= Len(st.s.Tasks[t + 1].SubTasks) THEN st
    ELSE IF st.s.Tasks[t + 1].SubTasks[i + 1].Checked
    THEN UncheckFrom(Applied(st, UncheckSubTask(st.s, t, i)), t, i + 1)
    ELSE UncheckFrom(st, t, i + 1)

\* strings.ToUpper on the letters the outputs are written with
UpperChar(c) ==
    CASE c = "a" -> "A" [] c = "d" -> "D" [] c = "e" -> "E" [] c = "n" -> "N"
      [] c = "o" -> "O" [] c = "p" -> "P" [] c = "r" -> "R" [] c = "v" -> "V"
      [] OTHER -> c

ToUpper(s) == [i \in 1..Len(s) |-> UpperChar(s[i])]

Approved == <<"A", "P", "P", "R", "O", "V", "E", "D">>

\* isReviewApproved that looks for the token as it is written
isReviewApproved_Literal(output) == Contains(output, Approved)

\* isReviewApproved: strings.Contains(strings.ToUpper(output), "APPROVED")
isReviewApproved(output) == Contains(ToUpper(output), Approved)

\* what a reviewer may answer
ReviewOutputs ==
    { Approved \o <<" ", "-", " ", "o", "k">>,
      <<"a", "p", "p", "r", "o", "v", "e", "d">>,
      <<"N", "O">>,
      <<>> }

\* what agent.ExecuteWithLogging may return
AgentResults ==
    {[Error |-> TRUE, Output |-> <<>>]} \cup
    {[Error |-> FALSE, Output |-> o] : o \in ReviewOutputs}

\* executeSubTask from the return of the agent on: s the handle NextWithOptions
\* parsed before the agent ran, file the sprint file now, t the current task, j
\* the subtask picked, approved the reviewer's verdict
AfterSubTask(s, file, t, j, approved) ==
    IF ~approved
    THEN LET st1 == Applied([s |-> s, file |-> file], AddFailure(s, t))
         IN  [file |-> UncheckFrom(st1, t, j).file, err |-> FALSE]
    ELSE LET r == CheckSubTask(s, t, j)
         IN  IF r.err THEN [file |-> file, err |-> TRUE]
             ELSE LET f1 == Applied([s |-> s, file |-> file], r).file
                      s1 == ParseSprintContent(f1)
                  IN  IF AllSubTasksComplete(s1, t)
                      THEN [file |-> Applied([s |-> s1, file |-> f1],
                                             CheckTask(s1, t)).file,
                            err |-> FALSE]
                      ELSE [file |-> f1, err |-> FALSE]

\* attemptReplan: the first task of tasks whose normalised text is that of text
RECURSIVE FindByText(_, _, _)
FindByText(tasks, i, text) ==
    IF i > Len(tasks) THEN -1
    ELSE IF NormalizeTaskText(tasks[i].Text) = NormalizeTaskText(text)
    THEN tasks[i].Index
    ELSE FindByText(tasks, i + 1, text)

\* attemptReplan from the return of the replanner on: the file is parsed again,
\* the task found by its text, its failures cleared and a replan marker added
AfterReplan(file, text) ==
    LET s == ParseSprintContent(file)
        t == FindByText(s.Tasks, 1, text)
    IN  IF t < 0 THEN [file |-> file, err |-> TRUE]
        ELSE LET st1 == Applied([s |-> s, file |-> file], ClearFailures(s, t))
                 st2 == Applied(st1, AddReplanMarker(st1.s, t))
             IN  [file |-> st2.file, err |-> FALSE]

\* what NextWithOptions does up to its first agent invocation
NoDecision ==
    [kind |-> "return", file |-> <<>>, s |-> NilSprint, t |-> 0, sub |-> NoRet,
     err |-> FALSE, human |-> FALSE, assessed |-> FALSE]

\* assessGoalAndPlanNext up to its agent invocation
AssessDecision(F, num, file) ==
    IF findSprintByNum(F, num + 1)
    THEN [NoDecision EXCEPT !.file = file, !.assessed = TRUE]
    ELSE [NoDecision EXCEPT !.kind = "assess", !.file = file, !.t = num, !.assessed = TRUE]

\* NextWithOptions whose gate opens only past maxReviewRetries failures
TaskDecision_PastLimit(s, file, sub) ==
    LET t == GetCurrentTask(s)
    IN  IF t < 0 THEN [NoDecision EXCEPT !.file = file, !.err = TRUE]
        ELSE IF s.Tasks[t + 1].FailureCount > maxReviewRetries
        THEN IF s.Tasks[t + 1].ReplanCount > 0
             THEN [NoDecision EXCEPT !.file = file, !.err = TRUE, !.human = TRUE]
             ELSE [NoDecision EXCEPT !.kind = "replan", !.file = file, !.s = s, !.t = t,
                                     !.sub = sub]
        ELSE [NoDecision EXCEPT !.kind = "agent", !.file = file, !.s = s, !.t = t,
                                !.sub = sub]

\* NextWithOptions from GetCurrentTask on
TaskDecision(s, file, sub) ==
    LET t == GetCurrentTask(s)
    IN  IF t < 0 THEN [NoDecision EXCEPT !.file = file, !.err = TRUE]
        ELSE IF s.Tasks[t + 1].FailureCount >= maxReviewRetries
        THEN IF s.Tasks[t + 1].ReplanCount > 0
             THEN [NoDecision EXCEPT !.file = file, !.err = TRUE, !.human = TRUE]
             ELSE [NoDecision EXCEPT !.kind = "replan", !.file = file, !.s = s, !.t = t,
                                     !.sub = sub]
        ELSE [NoDecision EXCEPT !.kind = "agent", !.file = file, !.s = s, !.t = t,
                                !.sub = sub]

\* NextWithOptions after autoCheckOrphanedTasks fixed a task: s2 is the sprint
\* parsed again and sub2 its next subtask
ReparsedDecision(F, num, s2, sub2) ==
    IF IsComplete(s2) THEN AssessDecision(F, num, s2.Content)
    ELSE IF sub2.found THEN TaskDecision(s2, s2.Content, sub2)
    ELSE [NoDecision EXCEPT !.file = s2.Content]

\* NextWithOptions when GetNextSubTask found nothing: ac is what
\* autoCheckOrphanedTasks did to the sprint file path
OrphanDecision(F, num, path, ac) ==
    IF ac.fixed = 0 THEN [NoDecision EXCEPT !.file = ac.disk]
    ELSE ReparsedDecision(F, num,
             [ParseSprintContent(ac.disk) EXCEPT !.FilePath = path],
             GetNextSubTask(ParseSprintContent(ac.disk)))

\* NextWithOptions that does not look for orphaned tasks
SprintDecision_NoAutoCheck(F, num, path, s, sub) ==
    IF IsComplete(s) THEN AssessDecision(F, num, s.Content)
    ELSE IF sub.found THEN TaskDecision(s, s.Content, sub)
    ELSE [NoDecision EXCEPT !.file = s.Content]

\* NextWithOptions on the parsed sprint s, number num, sub its next subtask
SprintDecision(F, num, path, s, sub) ==
    IF IsComplete(s) THEN AssessDecision(F, num, s.Content)
    ELSE IF sub.found THEN TaskDecision(s, s.Content, sub)
    ELSE OrphanDecision(F, num, path,
             autoCheckOrphanedTasks(s, s.Content, [i \in 1..Len(s.Tasks) |-> TRUE]))

\* NextWithOptions once ParseSprint returned p
ParsedDecision(F, st, p) ==
    IF p.err THEN [NoDecision EXCEPT !.err = TRUE]
    ELSE SprintDecision(F, st.CurrentSprintNum, st.CurrentSprintPath, p.sprint,
                        GetNextSubTask(p.sprint))

\* NextWithOptions in the execution phase, on the project F whose status is st
NextDecision(F, st) == ParsedDecision(F, st, ParseSprintFS(F, st.CurrentSprintPath))

\* runNext: the exit code of agate next, code being GetExitCode of the status
\* of the project it leaves behind
ExitCodeAfter(code, err, human) ==
    IF human THEN ExitHumanNeeded
    ELSE IF err
    THEN IF code = ExitHumanNeeded THEN ExitHumanNeeded ELSE 2
    ELSE code

NextExitCode(F, err, human) == ExitCodeAfter(GetExitCode(GetStatus(F)), err, human)

\* the sprint documents a project starts the run with
NextDocs ==
    { Join(<<TaskOpen, SubOpen>>),
      Join(<<TaskOpen, SubOpen, SubReview>>),
      Join(<<TaskOpen, SubOpen, TaskOther, SubReview>>),
      Join(<<TaskOpen, TaskOther, SubOpen>>),
      Join(<<TaskOpen, TaskOther, SubReview>>),
      Join(<<TaskDone, SubDone>>),
      Join(<<<<"-", " ", "[", " ", "]", " ", FailGlyph, FailGlyph, " ", "a">>, SubDone,
             SubReview>>),
      Join(<<<<"-", " ", "[", " ", "]", " ", FailGlyph, FailGlyph, FailGlyph, ReplanGlyph,
               " ", "a">>, SubOpen>>),
      Join(<<TaskOpen, SubDone, TaskOther>>),
      Join(<<ReplaceFirst(TaskOpen, BoxOpen, BoxLower), TaskOpen, SubReview>>),
      Join(<<Heading>>) }

\* the sprint documents a planning agent writes
PlannedDocs == {Join(<<TaskOther, SubOpen>>)}

\* the name of the sprint file behind the handle
HandleName == Drop(handle.FilePath, Len(SprintsPrefix))

\* agate auto has been started in a project whose planning phases are over
InitNext ==
    /\ goal = TRUE
    /\ interview = File(<<"-", " ", "[", "x", "]", " ", AllAnswered>>)
    /\ overview = TRUE
    /\ decisions = TRUE
    /\ sprintsDir = TRUE
    /\ \E d \in NextDocs :
          sprints = [n \in NextNames |-> IF n = FirstSprintName THEN File(d) ELSE Absent]
    /\ status = NoStatus
    /\ current = NoCurrent
    /\ ExitIdle
    /\ SprintIdle
    /\ CallIdle
    /\ pc = "drain"
    /\ step = 0
    /\ consecutiveErrors = 0
    /\ ret = -1
    /\ calls = <<>>
    /\ codes = <<>>
    /\ stdin = <<>>
    /\ inputCh = <<>>

\* NextWithOptions has returned to runNext: how it ended
Ending(err, human) == IF human THEN "human" ELSE IF err THEN "error" ELSE "ok"

\* NextWithOptions returns to runNext, which has the exit code still to set
ToExit(err, human) ==
    /\ pc' = "exit"
    /\ out' = [out EXCEPT !.op = Ending(err, human), !.m = 0]
    /\ UNCHANGED <<handle, codes, consecutiveErrors, ret>>

\* agate next exits with code and Run acts on it
Returns(code) ==
    \E sw \in {RunSwitch(code, FALSE, consecutiveErrors)} :
        /\ codes' = Append(codes, [code |-> code, err |-> FALSE])
        /\ consecutiveErrors' = sw.ce
        /\ pc' = IF sw.return THEN "done" ELSE "drain"
        /\ ret' = IF sw.return THEN sw.code ELSE ret
        /\ handle' = NilSprint

\* agate next starts: NextWithOptions runs up to its first agent invocation,
\* or to its end when it needs no agent
NextBegins ==
    /\ pc = "next"
    /\ \E st \in {GetStatus(Snapshot)} :
       \E d \in {NextDecision(Snapshot, st)} :
           /\ st.Phase = PhaseExecution
           /\ sprints' = IF d.err /\ d.file = <<>> THEN sprints
                         ELSE [sprints EXCEPT
                                 ![Drop(st.CurrentSprintPath, Len(SprintsPrefix))] =
                                     File(d.file)]
           /\ IF d.kind = "return"
              THEN /\ pc' = "exit"
                   /\ out' = [out EXCEPT !.b = @ \/ d.assessed, !.m = 0,
                                         !.op = Ending(d.err, d.human)]
                   /\ lastOp' = [NoOp EXCEPT !.op = "NextWithOptions"]
                   /\ handle' = handle
              ELSE /\ pc' = d.kind
                   /\ out' = [out EXCEPT !.b = @ \/ d.assessed, !.m = 0]
                   /\ handle' = d.s
                   /\ lastOp' = [op |-> d.kind, task |-> d.t, sub |-> d.sub.sub, ret |-> d.sub]
           /\ current' = [valid |-> TRUE, path |-> st.CurrentSprintPath,
                          num |-> st.CurrentSprintNum]
    /\ UNCHANGED <<codes, consecutiveErrors, ret>>
    /\ UNCHANGED <<goal, interview, overview, decisions, sprintsDir, status>>
    /\ UNCHANGED <<disk, lastErr, adds, onlyAdds, nOps, step, calls, stdin, inputCh>>
    /\ UNCHANGED <<oldDisk, newDisk, execResult, exitVars>>

\* the agent invoked by executeSubTask or attemptReplan edits the sprint file:
\* it checks the box of line k
AgentEdit ==
    /\ pc \in {"agent", "replan"}
    /\ out.m = 0
    /\ \E lines \in {Split(sprints[HandleName].data)} :
          \E k \in 1..Len(lines) :
              /\ Contains(lines[k], BoxOpen)
              /\ sprints' = [sprints EXCEPT ![HandleName] =
                               File(Join([lines EXCEPT ![k] =
                                            ReplaceFirst(lines[k], BoxOpen, BoxLower)]))]
              /\ out' = [out EXCEPT !.m = k]
    /\ UNCHANGED <<goal, interview, overview, decisions, sprintsDir, status, current>>
    /\ UNCHANGED <<sprintVars, autoVars, oldDisk, newDisk, execResult, exitVars>>

\* the agent of executeSubTask returns: with an error that recovery does not
\* mend, with a rejected review, or with success
SubTaskReturns ==
    /\ pc = "agent"
    /\ \E res \in AgentResults :
       \E file \in {sprints[HandleName].data} :
       \E approved \in {~(/\ isReviewer(handle.Tasks[lastOp.ret.task + 1]
                                            .SubTasks[lastOp.sub + 1].Skill)
                          /\ ~isReviewApproved(res.Output))} :
       \E r \in {IF res.Error THEN [file |-> file, err |-> TRUE]
                 ELSE AfterSubTask(handle, file, lastOp.task, lastOp.sub, approved)} :
          /\ execResult' = res
          /\ sprints' = [sprints EXCEPT ![HandleName] = File(r.file)]
          /\ ToExit(r.err, FALSE)
          /\ lastOp' = [lastOp EXCEPT !.op = "executeSubTask"]
    /\ UNCHANGED <<goal, interview, overview, decisions, sprintsDir, status, current>>
    /\ UNCHANGED <<disk, lastErr, adds, onlyAdds, nOps, step, calls, stdin, inputCh>>
    /\ UNCHANGED <<oldDisk, newDisk, exitVars>>

\* the replanner of attemptReplan returns, with an error or with success
ReplanReturns ==
    /\ pc = "replan"
    /\ \E ok \in BOOLEAN :
       \E file \in {sprints[HandleName].data} :
       \E r \in {IF ok THEN AfterReplan(file, handle.Tasks[lastOp.task + 1].Text)
                 ELSE [file |-> file, err |-> TRUE]} :
          /\ sprints' = [sprints EXCEPT ![HandleName] = File(r.file)]
          /\ ToExit(r.err, r.err)
          /\ lastOp' = [lastOp EXCEPT !.op = "attemptReplan"]
    /\ UNCHANGED <<goal, interview, overview, decisions, sprintsDir, status, current>>
    /\ UNCHANGED <<disk, lastErr, adds, onlyAdds, nOps, step, calls, stdin, inputCh>>
    /\ UNCHANGED <<oldDisk, newDisk, execResult, exitVars>>

\* the agent of assessGoalAndPlanNext returns: with an error or without a valid
\* sprint file, with GOAL_COMPLETE, or having written the next sprint file
AssessReturns ==
    /\ pc = "assess"
    /\ \E outcome \in {"error", "complete", "planned"} :
       \E name \in {NextSprintName(lastOp.task + 1)} :
          /\ outcome = "planned" => name \in DOMAIN sprints
          /\ sprints' = IF outcome = "planned"
                        THEN [sprints EXCEPT ![name] = File(CHOOSE d \in PlannedDocs : TRUE)]
                        ELSE sprints
          /\ ToExit(outcome = "error", FALSE)
          /\ lastOp' = [lastOp EXCEPT !.op = "assessGoalAndPlanNext"]
    /\ UNCHANGED <<goal, interview, overview, decisions, sprintsDir, status, current>>
    /\ UNCHANGED <<disk, lastErr, adds, onlyAdds, nOps, step, calls, stdin, inputCh>>
    /\ UNCHANGED <<oldDisk, newDisk, execResult, exitVars>>

\* runNext after NextWithOptions returned: the exit code is set from the status
\* of the project as it is now, and agate auto acts on it
NextExits ==
    /\ pc = "exit"
    /\ Returns(NextExitCode(Snapshot, out.op \in {"error", "human"}, out.op = "human"))
    /\ out' = [out EXCEPT !.op = "none"]
    /\ UNCHANGED <<goal, interview, overview, decisions, sprintsDir, sprints, status, current>>
    /\ UNCHANGED <<disk, lastOp, lastErr, adds, onlyAdds, nOps, step, calls, stdin, inputCh>>
    /\ UNCHANGED <<oldDisk, newDisk, execResult, exitVars>>

NextNext ==
    \/ DrainDone
    \/ StartNext
    \/ NextBegins
    \/ AgentEdit
    \/ SubTaskReturns
    \/ ReplanReturns
    \/ AssessReturns
    \/ NextExits

SpecNext == InitNext /\ [][NextNext]_vars

\* C23: in an agate auto run, after the step that checks the last task of the
\* last existing sprint, the loop runs a goal-assessment step
\* (assessGoalAndPlanNext) before it reports done: the step on which Run
\* returns 0 is a goal assessment
C23_AssessedBeforeDone ==
    (pc = "done" /\ ret = ExitDone) => lastOp.op = "assessGoalAndPlanNext"

\* the lines of task t of the handle s: its own line and those of its subtasks
TaskLines(s, t) ==
    IF BadTask(s, t) THEN {}
    ELSE {s.Tasks[t + 1].LineNum} \cup
         {s.Tasks[t + 1].SubTasks[j].LineNum : j \in 1..Len(s.Tasks[t + 1].SubTasks)}

\* C24: in every Next step, after an agent invocation returns, the sprint is
\* re-read before the orchestrator's next write to the sprint file, so an edit
\* the agent made to the file during the invocation (a box it checked on a line
\* of another task) is not overwritten by content parsed before the invocation
C24_AgentEditSurvives ==
    [][(/\ pc \in {"agent", "replan"}
        /\ pc' \notin {"agent", "replan"}
        /\ out.m > 0
        /\ out.m \notin TaskLines(handle, lastOp.task))
       => Split(sprints'[HandleName].data)[out.m] = Split(sprints[HandleName].data)[out.m]]_vars



\* ---------------------------------------------------------------------------
\* The sprint grammar and the lines the glyph mutators write (SpecSprint)
\* ---------------------------------------------------------------------------

GlyphMutators == {"AddFailure", "AddReplanMarker", "ClearFailures"}

\* a top-level line of the sprint grammar: the checkbox and one space, then
\* the text, or a run of glyphs, a space and the text
ConformsToGrammar(line) ==
    /\ BoxPrefixAt(line, 0)
    /\ LET rest == Drop(line, 6)
           g    == GlyphRunLen(rest)
       IN  g = 0 \/ (Len(rest) > g /\ rest[g + 1] = " ")

\* C25: every task line written by AddFailure, AddReplanMarker or ClearFailures
\* conforms to the sprint grammar: checkbox, one space, then the text directly
\* or a run of glyphs followed by a space and the text.
C25_WrittenLineConforms ==
    [][(/\ nOps' = nOps + 1
        /\ lastOp'.op \in GlyphMutators
        /\ ~lastErr')
       => ConformsToGrammar(
              Split(disk')[handle.Tasks[lastOp'.task + 1].LineNum])]_vars


\* C26: whenever IsComplete holds for a parsed sprint, every task and every
\* subtask is checked: no subtask is unchecked and GetOverallProgress reports
\* completed = total.
C26_CompleteMeansAllChecked ==
    (~handle.nil /\ IsComplete(handle)) =>
        /\ \A t \in 1..Len(handle.Tasks) :
              \A j \in 1..Len(handle.Tasks[t].SubTasks) :
                  handle.Tasks[t].SubTasks[j].Checked
        /\ GetOverallProgress(handle).completed = GetOverallProgress(handle).total


\* ---------------------------------------------------------------------------
\* The shape of a parsed sprint (SpecOrphan)
\* ---------------------------------------------------------------------------

\* the numbers (from 1) of the lines that the top-level pattern matches
TopLines(lines) == {k \in 1..Len(lines) : TopLevelMatch(lines[k]).ok}

\* the numbers of the lines that only the subtask pattern matches
SubLines(lines) ==
    {k \in 1..Len(lines) : ~TopLevelMatch(lines[k]).ok /\ SubTaskMatch(lines[k]).ok}

\* the subtask lines between the task line m and the next task line
OwnedLines(lines, m) ==
    {k \in SubLines(lines) : m < k /\ \A n \in TopLines(lines) : ~(m < n /\ n < k)}

\* C27: ParseSprintContent never fails and reads the document in one pass: the
\* tasks carry the indices 0, 1, 2, ... in document order, the subtasks of a
\* task the indices 0, 1, 2, ... with ParentIndex the task's index, line
\* numbers are 1-based and strictly increasing, a subtask line belongs to the
\* most recent task line even across lines that are neither, and a subtask
\* line before any task line is ignored.
C27_ParseStructure ==
    LET s     == ParseSprintContent(disk)
        lines == Split(disk)
        T     == s.Tasks
    IN  /\ ~s.nil
        /\ {T[i].LineNum : i \in 1..Len(T)} = TopLines(lines)
        /\ \A i \in 1..Len(T) :
              /\ T[i].Index = i - 1
              /\ i > 1 => T[i - 1].LineNum < T[i].LineNum
              /\ {T[i].SubTasks[j].LineNum : j \in 1..Len(T[i].SubTasks)}
                    = OwnedLines(lines, T[i].LineNum)
              /\ \A j \in 1..Len(T[i].SubTasks) :
                    /\ T[i].SubTasks[j].Index = j - 1
                    /\ T[i].SubTasks[j].ParentIndex = i - 1
                    /\ T[i].SubTasks[j].LineNum >
                          (IF j = 1 THEN T[i].LineNum ELSE T[i].SubTasks[j - 1].LineNum)
        /\ (lastOp.op = "ParseSprint" /\ nOps = 0) =>
              (~handle.nil /\ ~lastErr /\ handle.Tasks = T)

\* C27 witness: a parsed document that has a subtask line before its first
\* task line, a subtask attached across a heading, and a second task.
C27_Witness ==
    /\ lastOp.op = "ParseSprint"
    /\ ~handle.nil
    /\ handle.Content = disk
    /\ Len(handle.Tasks) = 2
    /\ Len(handle.Tasks[1].SubTasks) = 1
    /\ SubTaskMatch(Split(disk)[1]).ok
    /\ handle.Tasks[1].LineNum = 2
    /\ handle.Tasks[1].SubTasks[1].LineNum = 4
    /\ handle.Tasks[2].Index = 1


\* ---------------------------------------------------------------------------
\* Line numbers of a handle across mutations (SpecSprint)
\* ---------------------------------------------------------------------------

\* the line number the call recorded in op addresses on handle s, 0 when its
\* indices are invalid
HandleLine(s, op) ==
    IF InvalidIndex(s, op) THEN 0
    ELSE IF op.op \in {"CheckSubTask", "UncheckSubTask"}
    THEN s.Tasks[op.task + 1].SubTasks[op.sub + 1].LineNum
    ELSE s.Tasks[op.task + 1].LineNum

\* the line numbers held by a list of tasks
LineNums(tasks) ==
    [i \in 1..Len(tasks) |->
        [task |-> tasks[i].LineNum,
         subs |-> [j \in 1..Len(tasks[i].SubTasks) |-> tasks[i].SubTasks[j].LineNum]]]

\* new has as many lines as old and differs from it in line k at most, which
\* is a task line, or a subtask line, in both or in neither
SameButLine(old, new, k) ==
    /\ Len(new) = Len(old)
    /\ k = 0 => new = old
    /\ k > 0 => /\ [new EXCEPT ![k] = old[k]] = old
                /\ TopLevelMatch(new[k]).ok = TopLevelMatch(old[k]).ok
                /\ SubTaskMatch(new[k]).ok = SubTaskMatch(old[k]).ok

\* C28: every mutator leaves the number of lines and the content of every line
\* other than the addressed one unchanged and the addressed line a task or
\* subtask line as before, and the file holds what it held or the handle's
\* document, so the line numbers held by the handle stay those of its document
\* after any sequence of mutations.
C28_MutatorsKeepOtherLines ==
    [][(nOps' = nOps + 1 /\ lastOp'.op \in Mutators)
       => /\ \/ handle'.Content = handle.Content
             \/ \A old \in {Split(handle.Content)}, new \in {Split(handle'.Content)} :
                   SameButLine(old, new, HandleLine(handle, lastOp'))
          /\ disk' \in {disk, handle'.Content}
          /\ \/ handle'.Tasks = handle.Tasks
             \/ LineNums(handle'.Tasks) = LineNums(handle.Tasks)]_vars

\* C28 witness: the third successful mutation through one handle, a subtask
\* checked after a glyph was added to a task of a document with several lines.
C28_Witness ==
    /\ nOps = 3
    /\ ~lastErr
    /\ lastOp.op = "CheckSubTask"
    /\ ~InvalidIndex(handle, lastOp)
    /\ handle.Content = disk
    /\ Len(Split(disk)) >= 3
    /\ \E t \in 1..Len(handle.Tasks) :
          /\ adds[t].f + adds[t].r >= 1
          /\ handle.Tasks[t].SubTasks /= <<>>
    /\ ParseSprintContent(disk).Tasks[lastOp.task + 1].SubTasks[lastOp.sub + 1].Checked
    /\ LineNums(ParseSprintContent(disk).Tasks) = LineNums(handle.Tasks)


\* ---------------------------------------------------------------------------
\* UncheckSubTask after CheckSubTask (SpecSprint)
\* ---------------------------------------------------------------------------

\* subtask j of task t (both from 0) as the text parses
ParsedSub(text, t, j) == ParseSprintContent(text).Tasks[t + 1].SubTasks[j + 1]

\* C29: UncheckSubTask is the inverse of CheckSubTask: on a checked subtask
\* ("[x]" or "[X]") it yields a document in which the subtask parses unchecked
\* with the same skill and text, and right after CheckSubTask on an unchecked
\* subtask it gives back the original document.
C29_UncheckInvertsCheck ==
    [][(/\ nOps' = nOps + 1
        /\ ~InvalidIndex(handle, lastOp')
        /\ handle.Content = disk
        /\ ~lastErr')
       => LET t == lastOp'.task
              j == lastOp'.sub
          IN  /\ (lastOp'.op = "UncheckSubTask" /\ ParsedSub(disk, t, j).Checked)
                    => /\ ~ParsedSub(disk', t, j).Checked
                       /\ ParsedSub(disk', t, j).Skill = ParsedSub(disk, t, j).Skill
                       /\ ParsedSub(disk', t, j).Text = ParsedSub(disk, t, j).Text
              /\ (lastOp'.op = "CheckSubTask" /\ ~ParsedSub(disk, t, j).Checked)
                    => UncheckSubTask(handle', t, j).s.Content = handle.Content]_vars


(***************************************************************************)
(* Specification SpecShape: the glyph mutators on a handle whose Tasks and *)
(* Content do not belong together (SprintState is a plain struct with      *)
(* exported fields; callers and tests build it without ParseSprint)        *)
(***************************************************************************)

\* the documents a handle's Tasks and Content are taken from
ShapeDocs ==
    { <<>>,
      Join(<<TaskOpen, SubOpen>>),
      Join(<<TaskGlyphs, SubOpen>>),
      Join(<<Heading, TaskDone, SubDone>>),
      Join(<<SubOpen, TaskDone>>),
      Join(<<Heading, Heading, Heading, TaskOpen>>) }

InitShape ==
    /\ \E d1 \in ShapeDocs, d2 \in ShapeDocs :
          /\ handle = [ParseSprintContent(d1) EXCEPT !.Content = d2, !.FilePath = <<"s">>]
          /\ disk = d2
    /\ lastOp = NoOp
    /\ lastErr = FALSE
    /\ adds = [i \in 1..Len(handle.Tasks) |-> NoAdds]
    /\ onlyAdds = FALSE
    /\ nOps = 0
    /\ goal = FALSE
    /\ interview = Absent
    /\ overview = FALSE
    /\ decisions = FALSE
    /\ sprintsDir = FALSE
    /\ sprints = [n \in SprintNames |-> Absent]
    /\ status = NoStatus
    /\ current = NoCurrent
    /\ ExitIdle
    /\ CallIdle
    /\ AutoIdle

NextShape ==
    \/ DoAddFailure
    \/ DoAddReplanMarker
    \/ DoClearFailures

SpecShape == InitShape /\ [][NextShape]_vars

\* the line the task of the call op addresses in the Content of handle s lies
\* outside the document or does not start with a checkbox
ShapeLost(s, op) ==
    LET lines == Split(s.Content)
        k     == s.Tasks[op.task + 1].LineNum
    IN  k < 1 \/ k > Len(lines) \/ ~BoxPrefixAt(lines[k], 0)

\* C30: AddFailure, AddReplanMarker and ClearFailures on a task whose addressed
\* line in Content no longer has the checkbox-plus-glyph shape, or whose line
\* number lies outside the document, return an error and leave Content, the
\* counters of the handle and the file unchanged.
C30_ShapeLostRejected ==
    [][(/\ nOps' = nOps + 1
        /\ lastOp'.op \in GlyphMutators
        /\ ~BadTask(handle, lastOp'.task)
        /\ ShapeLost(handle, lastOp'))
       => /\ lastErr'
          /\ handle'.Content = handle.Content
          /\ Counters(handle') = Counters(handle)
          /\ disk' = disk]_vars

\* C30 witness: ClearFailures was refused on a task whose line number points
\* at a line of the document that is not a task line, after a glyph was added
\* to another task of the handle.
C30_Witness ==
    /\ lastOp.op = "ClearFailures"
    /\ lastErr
    /\ ~BadTask(handle, lastOp.task)
    /\ handle.Tasks[lastOp.task + 1].LineNum \in 1..Len(Split(handle.Content))
    /\ ~BoxPrefixAt(Split(handle.Content)[handle.Tasks[lastOp.task + 1].LineNum], 0)
    /\ handle.Content = disk
    /\ nOps >= 2


\* ---------------------------------------------------------------------------
\* Review failures, approval and escalation in a Next step (SpecNext)
\* ---------------------------------------------------------------------------

\* the subtask NextWithOptions picked, as the handle holds it
PickedSub == handle.Tasks[lastOp.ret.task + 1].SubTasks[lastOp.sub + 1]

\* this step is the return of the agent of executeSubTask without an error
AgentReturned ==
    /\ pc = "agent"
    /\ lastOp'.op = "executeSubTask"
    /\ ~execResult'.Error

\* this step is the return of a reviewer whose output does not approve
ReviewRejected ==
    /\ AgentReturned
    /\ isReviewer(PickedSub.Skill)
    /\ ~isReviewApproved(execResult'.Output)

\* C31: when a reviewer's output is not approved, the failure count of the
\* subtask's parent task grows by exactly one, the reviewed subtask and every
\* later subtask of that task end unchecked, the earlier subtasks, the task's
\* box and all other tasks are unchanged, and the step reports more work.
C31_ReviewFailureHandling ==
    [][ReviewRejected
       => LET before == ParseSprintContent(sprints[HandleName].data).Tasks
              after  == ParseSprintContent(sprints'[HandleName].data).Tasks
              p      == lastOp.ret.task + 1
              j      == lastOp.sub + 1
          IN  /\ Len(after) = Len(before)
              /\ after[p].FailureCount = before[p].FailureCount + 1
              /\ after[p].ReplanCount = before[p].ReplanCount
              /\ after[p].Checked = before[p].Checked
              /\ Len(after[p].SubTasks) = Len(before[p].SubTasks)
              /\ \A k \in 1..Len(after[p].SubTasks) :
                    IF k >= j THEN ~after[p].SubTasks[k].Checked
                    ELSE after[p].SubTasks[k] = before[p].SubTasks[k]
              /\ \A i \in 1..Len(after) : i /= p => after[i] = before[i]
              /\ out'.op = "ok"]_vars


\* this step is the return of a reviewer without an error
ReviewerReturned == AgentReturned /\ isReviewer(PickedSub.Skill)

\* the reviewed subtask is checked in the sprint file f
ReviewedChecked(f) ==
    ParseSprintContent(f).Tasks[lastOp.ret.task + 1].SubTasks[lastOp.sub + 1].Checked

\* failure glyphs on the current task in the sprint file f
CurrentFailures(f) == ParseSprintContent(f).Tasks[lastOp.task + 1].FailureCount

\* the reviewer's step given that its output counts as approved or not
ReviewOutcome(approved) ==
    LET before == sprints[HandleName].data
        after  == sprints'[HandleName].data
    IN  IF approved
        THEN /\ CurrentFailures(after) = CurrentFailures(before)
             /\ lastOp.ret.task = lastOp.task => ReviewedChecked(after)
        ELSE /\ CurrentFailures(after) = CurrentFailures(before) + 1
             /\ ~ReviewedChecked(after)

FirstUnchecked(f) ==
    LET tasks == ParseSprintContent(f).Tasks
    IN  {tasks[t] : t \in {t \in 1..Len(tasks) :
                             /\ ~tasks[t].Checked
                             /\ \A u \in 1..(t - 1) : tasks[u].Checked}}

\* the first task of the sprint file f whose normalised text is that of text
FirstNamed(f, text) ==
    LET tasks == ParseSprintContent(f).Tasks
        same(t) == NormalizeTaskText(tasks[t].Text) = NormalizeTaskText(text)
    IN  {tasks[t] : t \in {t \in 1..Len(tasks) :
                             same(t) /\ \A u \in 1..(t - 1) : ~same(u)}}

C33_HumanAfterReplan ==
    /\ ret = ExitHumanNeeded
    /\ \E n \in DOMAIN sprints :
          /\ sprints[n].kind = "file"
          /\ \E cur \in FirstUnchecked(sprints[n].data) :
                cur.FailureCount >= maxReviewRetries /\ cur.ReplanCount > 0


(***************************************************************************)
(* Errors of a merge (SpecMerge)                                           *)
(***************************************************************************)

\* C34: persistence errors are not swallowed: whenever the write of a failure
\* glyph failed during MergeFailureCounts, MergeFailureCounts returns an error
\* to its caller.
C34_MergeErrorsSurface ==
    (out.op = "MergeFailureCounts" /\ out.n > 0) => out.b


(***************************************************************************)
(* Specification SpecNames: sprint files named by FormatSprintFilename and *)
(* the current sprint found among them                                     *)
(***************************************************************************)

\* most sprint files written
MaxNamed == 3

\* the numbers and names handed to FormatSprintFilename
NameNums == {1, 2, 9, 10, 99, 100}

NameWords == {<<"a">>, <<"c">>}

\* fmt.Sprintf("%d", num) for num > 0
RECURSIVE Itoa(_)
Itoa(num) ==
    LET digit == <<"0", "1", "2", "3", "4", "5", "6", "7", "8", "9">>
    IN  IF num < 10 THEN <<digit[num + 1]>>
        ELSE Itoa(num \div 10) \o <<digit[(num % 10) + 1]>>

\* FormatSprintFilename without the zero padding: "%d-%s.md"
FormatSprintFilename_NoPad(num, name) == Itoa(num) \o <<"-">> \o name \o MdSuffix

\* FormatSprintFilename: fmt.Sprintf("%02d-%s.md", num, name)
FormatSprintFilename(num, name) ==
    (IF num < 10 THEN <<"0">> ELSE <<>>) \o Itoa(num) \o <<"-">> \o name \o MdSuffix

InitNames ==
    /\ goal = TRUE
    /\ interview = Absent
    /\ overview = FALSE
    /\ decisions = FALSE
    /\ sprintsDir = TRUE
    /\ sprints = [n \in {} |-> Absent]
    /\ status = NoStatus
    /\ current = NoCurrent
    /\ ExitIdle
    /\ SprintIdle
    /\ CallIdle
    /\ AutoIdle

\* a sprint file is written under the name FormatSprintFilename gives it, with
\* an unchecked or a checked task; calls records the number and the name
DoFormatSprintFilename ==
    /\ out = NoOut
    /\ Len(calls) < MaxNamed
    /\ \E num \in NameNums, name \in NameWords, doc \in {TaskOpen, TaskDone} :
       \E file \in {FormatSprintFilename(num, name)} :
          /\ file \notin DOMAIN sprints
          /\ sprints' = (file :> File(doc)) @@ sprints
          /\ calls' = Append(calls, [num |-> num, file |-> file, open |-> doc = TaskOpen])
    /\ UNCHANGED <<goal, interview, overview, decisions, sprintsDir, status, current>>
    /\ UNCHANGED <<exitVars, sprintVars, callVars>>
    /\ UNCHANGED <<pc, step, consecutiveErrors, ret, codes, stdin, inputCh>>

\* FindCurrentSprintFS runs on the directory
DoFindCurrentSprintFS ==
    /\ out = NoOut
    /\ \E r \in {FindCurrentSprintFS(Snapshot)} :
          current' = [valid |-> TRUE, path |-> r.path, num |-> r.num]
    /\ out' = [NoOut EXCEPT !.op = "FindCurrentSprintFS"]
    /\ UNCHANGED <<goal, interview, overview, decisions, sprintsDir, sprints, status>>
    /\ UNCHANGED <<exitVars, sprintVars, oldDisk, newDisk, execResult, autoVars>>

NextNamed == DoFormatSprintFilename \/ DoFindCurrentSprintFS

SpecNames == InitNames /\ [][NextNamed]_vars

\* every number handed to FormatSprintFilename so far is within 1..99
NumsInRange == \A i \in 1..Len(calls) : calls[i].num \in 1..99

\* C35: for sprint files named by FormatSprintFilename with numbers in 1..99,
\* the lexicographic order of the names is the numeric order, so the sprint
\* FindCurrentSprintFS chooses is the lowest-numbered incomplete one, and
\* ExtractSprintNum recovers the number given to FormatSprintFilename.
C35_NameOrderIsNumeric ==
    NumsInRange
    => /\ \A i, j \in 1..Len(calls) :
             calls[i].num < calls[j].num => StrLess(calls[i].file, calls[j].file)
       /\ \A i \in 1..Len(calls) : ExtractSprintNum(calls[i].file) = calls[i].num
       /\ (out.op = "FindCurrentSprintFS" /\ \E i \in 1..Len(calls) : calls[i].open)
          => /\ \E i \in 1..Len(calls) :
                   /\ calls[i].open
                   /\ current.num = calls[i].num
                   /\ current.path \in {SprintsPrefix \o calls[k].file :
                                          k \in {k \in 1..Len(calls) :
                                                   calls[k].open /\ calls[k].num = calls[i].num}}
                   /\ \A j \in 1..Len(calls) : calls[j].open => calls[i].num <= calls[j].num

\* C35 witness: sprint 10 was written before sprint 9, sprint 2 is complete,
\* and FindCurrentSprintFS chose sprint 9.
C35_Witness ==
    /\ out.op = "FindCurrentSprintFS"
    /\ NumsInRange
    /\ Len(calls) = 3
    /\ calls[1].num = 10 /\ calls[1].open
    /\ calls[2].num = 9 /\ calls[2].open
    /\ calls[3].num = 2 /\ ~calls[3].open
    /\ current.num = 9


(***************************************************************************)
(* The subtask picked and the current task (SpecQuery)                     *)
(***************************************************************************)

\* C36: whenever GetNextSubTask returns a subtask, its ParentIndex is the index
\* of the task GetCurrentTask returns, so the retry gate, the failure glyph,
\* CheckSubTask and CheckTask address the task the subtask is listed under.
C36_SubTaskOfCurrentTask ==
    (lastOp.op = "GetNextSubTask" /\ lastOp.ret.found)
    => lastOp.ret.task = GetCurrentTask(handle)


(***************************************************************************)
(* Orphaned tasks in a Next step (SpecNext)                                *)
(***************************************************************************)

\* this step is NextWithOptions running up to its first agent or to its end
NextRan == pc = "next" /\ pc' # "next"

\* the sprint file NextWithOptions works on, before and after this step
SprintBefore == ParseSprintContent(sprints[Drop(current'.path, Len(SprintsPrefix))].data)

SprintAfter == ParseSprintContent(sprints'[Drop(current'.path, Len(SprintsPrefix))].data)

CheckedTasks(s) == {t \in 1..Len(s.Tasks) : s.Tasks[t].Checked}

\* NextWithOptions returned without work left to do in the sprint
NoMoreWork == pc' = "exit" /\ out'.op = "ok"

\* what C37 promises of a step that finds no subtask in the sprint before
OrphansRemedied(before, after) ==
    /\ ~GetNextSubTask(before).found
       => /\ Cardinality(CheckedTasks(after)) > Cardinality(CheckedTasks(before))
          /\ IsComplete(after)
    /\ NoMoreWork => CheckedTasks(after) = 1..Len(after.Tasks)

\* C37 as stated: writes succeeding, whenever the sprint is not complete and
\* GetNextSubTask returns none, autoCheckOrphanedTasks checks at least one task
\* and the sprint parsed again is complete, so Next never returns "No more
\* tasks in current sprint" while an unchecked task remains.
C37_NoWedgeWhenIncomplete ==
    [][(NextRan /\ ~IsComplete(SprintBefore))
       => \A before \in {SprintBefore}, after \in {SprintAfter} :
             OrphansRemedied(before, after)]_vars

\* C37 amended: writes succeeding, whenever the sprint has an unchecked task
\* and GetNextSubTask returns none, autoCheckOrphanedTasks checks at least one
\* task and the sprint parsed again is complete, so Next never returns "No
\* more tasks in current sprint" while an unchecked task remains.
C37_NoWedgeOnUncheckedTask ==
    [][(NextRan /\ CheckedTasks(SprintBefore) # 1..Len(SprintBefore.Tasks))
       => \A before \in {SprintBefore}, after \in {SprintAfter} :
             OrphansRemedied(before, after)]_vars

\* C37 witness: Next found the unchecked tasks a, whose only subtask is
\* checked, and c, which has none, and the sprint file is complete afterwards.
C37_Witness ==
    /\ pc = "assess"
    /\ current.valid
    /\ sprints[Drop(current.path, Len(SprintsPrefix))].data =
          Join(<<ReplaceFirst(TaskOpen, BoxOpen, BoxLower), SubDone,
                 ReplaceFirst(TaskOther, BoxOpen, BoxLower)>>)


(***************************************************************************)
(* Specification SpecRetry: agate auto on a sprint that starts without     *)
(* failure or replan glyphs                                                *)
(***************************************************************************)

\* the sprint file the run starts with holds no glyph
InitRetry ==
    /\ InitNext
    /\ \A i \in 1..Len(sprints[FirstSprintName].data) :
          ~IsGlyph(sprints[FirstSprintName].data[i])

SpecRetry == InitRetry /\ [][NextNext]_vars

\* C38: retries are bounded: from a sprint file without glyphs, with only Next
\* steps writing glyphs, every task's failure count is at most
\* maxReviewRetries and its replan count at most 1 in every reachable state.
C38_BoundedRetries ==
    \A n \in DOMAIN sprints :
        sprints[n].kind = "file"
        => \A task \in {ParseSprintContent(sprints[n].data).Tasks[t] :
                          t \in 1..Len(ParseSprintContent(sprints[n].data).Tasks)} :
              /\ task.FailureCount <= maxReviewRetries
              /\ task.ReplanCount <= 1


(***************************************************************************)
(* Convergence of agate auto (SpecNext)                                    *)
(***************************************************************************)

\* this step is NextWithOptions returning without having invoked an agent and
\* without having changed a file
IdleStep == pc = "next" /\ pc' = "exit" /\ sprints' = sprints

\* C39: agate auto converges: every agent call returning, writes succeeding
\* and agents changing subtask lines only, the loop ends after finitely many
\* steps with 0, 255 or an error code. A step that invokes no agent and
\* changes no file is repeated as it is by the next iteration, so no such
\* step may exit with more-work (1).
C39_NoIdleMoreWork ==
    [][IdleStep
       => \A code \in {GetExitCode(GetStatus(Snapshot))} :
             ExitCodeAfter(code, out'.op \in {"error", "human"}, out'.op = "human")
                # ExitMoreWork]_vars


(***************************************************************************)
(* Phases of a growing project (SpecStatus)                                *)
(***************************************************************************)

\* the place of a phase in the order interview, design, decisions, sprint,
\* execution
PhaseRank(phase) ==
    CASE phase = PhaseInterview -> 1
      [] phase = PhaseDesign -> 2
      [] phase = PhaseDecisions -> 3
      [] phase = PhaseSprint -> 4
      [] phase = PhaseExecution -> 5

\* the text b is the text a with one unchecked box checked
BoxTurned(a, b) ==
    /\ Len(a) = Len(b)
    /\ \E i \in 1..(Len(a) - 2) :
          /\ SubSeq(a, i, i + 2) = BoxOpen
          /\ b = [a EXCEPT ![i + 1] = "x"]

\* this step changes the project tree, and only by adding a file or the
\* sprints directory or by checking a box of the interview
GrowStep ==
    /\ Snapshot' # Snapshot
    /\ goal => goal'
    /\ overview => overview'
    /\ decisions => decisions'
    /\ sprintsDir => sprintsDir'
    /\ \/ interview' = interview
       \/ interview = Absent /\ interview'.kind = "file"
       \/ /\ interview.kind = "file" /\ interview.readable /\ interview'.readable
          /\ BoxTurned(interview.data, interview'.data)
    /\ \A n \in DOMAIN sprints :
          \/ sprints'[n] = sprints[n]
          \/ sprints[n] = Absent /\ sprints'[n].kind = "file"

\* C40: phases advance monotonically: along any sequence of changes of the
\* project tree that only add files (goal, interview, design overview,
\* decisions, sprint files) and only turn the interview's completion box from
\* unchecked to checked, the phase GetStatus derives never moves backwards in
\* the order interview, design, decisions, sprint, execution. The phase before
\* a change is the one agate status reported on the tree as it was (status).
C40_PhaseNeverMovesBack ==
    [][(GrowStep /\ status.valid)
       => \/ PhaseRank(status.r.Phase) = 1
          \/ PhaseRank(GetStatus(Snapshot').Phase) >= PhaseRank(status.r.Phase)]_vars

\* C40 witness: agate status reports the execution phase on a project whose
\* interview box has been checked and that holds a sprint file
C40_Witness ==
    /\ status.valid
    /\ status.r.Phase = PhaseExecution
    /\ interview = File(<<"#", " ", "i", NL, "-", " ", "[", "x", "]", " ", AllAnswered, NL>>)
    /\ \E n \in DOMAIN sprints : sprints[n].kind = "file"

====
